---- MODULE Spec2Model ----
(***************************************************************************)
(* Model of the reality-jump server pipeline: the POST /api/scene handler  *)
(* (src/server/routes/scene.ts, sceneRouter.post) and the vision service   *)
(* analyzeImage with its single repair attempt and the shared              *)
(* FALLBACK_SCENE object (src/server/fallback.ts).                         *)
(* A second specification, SchemaSpec, calls the helpers the client's      *)
(* schema module exports (src/shared/schema/scene_v1.schema.ts):           *)
(* parseSceneV1, validateCaps, isEnemySpawnAnchor, getEnemySpawnAnchors.   *)
(*                                                                         *)
(* Numbers that are fractions in the source (normalised coordinates) are   *)
(* kept in hundredths: 0.05 is 5.  console logging and the durationMs      *)
(* field (Date.now() differences) have no effect on control flow or on any *)
(* scene and are left out.                                                 *)
(***************************************************************************)
EXTENDS Integers, Sequences, FiniteSets, TLC

\* ------------------------------------------------------------------ bounds

\* Number of POST /api/scene requests in flight over the life of the process.
NumRequests == 2

\* Longest list of validation errors a repair prompt is built from.
MaxErrors == 3

\* How many times a call of a schema helper is executed on the same argument.
MaxCalls == 2

\* How far over its cap the number of objects of a type goes.
MaxExcess == 1

\* Longest list of objects the enemy spawn anchors are taken from.
MaxListLen == 3

Requests == 1..NumRequests

\* ------------------------------------------------------- program constants

MAX_WIDTH == 1024
DEFAULT_HEIGHT == 768
MAX_OBJECTS == 25

TYPE_CAPS ==
    [platform |-> 12, obstacle |-> 8, collectible |-> 10, hazard |-> 8, enemy |-> 2]

\* Object.entries(TYPE_CAPS) visits the keys in insertion order.
TYPE_CAPS_ORDER == <<"platform", "obstacle", "collectible", "hazard", "enemy">>

\* The object literal that initialises FALLBACK_SCENE.
FALLBACK_SCENE_LITERAL ==
    [version |-> 1,
     image |-> [w |-> 1024, h |-> 768],
     detections |-> <<>>,
     spawns |-> [player |-> [x |-> 5, y |-> 85],
                 exit |-> [x |-> 90, y |-> 15],
                 enemies |-> <<>>,
                 pickups |-> <<[type |-> "coin", x |-> 30, y |-> 75],
                               [type |-> "coin", x |-> 50, y |-> 55],
                               [type |-> "coin", x |-> 70, y |-> 35]>>],
     surfaces |-> <<[type |-> "platform",
                     poly |-> <<<<0, 90>>, <<100, 90>>, <<100, 95>>, <<0, 95>>>>],
                    [type |-> "platform",
                     poly |-> <<<<20, 70>>, <<45, 70>>, <<45, 74>>, <<20, 74>>>>],
                    [type |-> "platform",
                     poly |-> <<<<55, 50>>, <<80, 50>>, <<80, 54>>, <<55, 54>>>>]>>,
     rules |-> <<>>]

\* ------------------------------------------------------------ JSON values

\* A JSON value is a tagged record; t is the JavaScript type of the value.
JNull == [t |-> "null"]
JFalse == [t |-> "boolean", v |-> FALSE]
JZero == [t |-> "number", v |-> 0]
JEmptyString == [t |-> "string", v |-> ""]
JObject(fields) == [t |-> "object", v |-> fields]

\* JavaScript ToBoolean, as applied by `if (parsed)`.
Truthy(j) ==
    CASE j.t = "null" -> FALSE
      [] j.t = "boolean" -> j.v
      [] j.t = "number" -> j.v # 0
      [] j.t = "string" -> j.v # ""
      [] j.t = "undefined" -> FALSE
      [] OTHER -> TRUE

Platforms(n) == [i \in 1..n |-> [id |-> i, type |-> "platform"]]

\* A scene payload as the model may send it.
Payload(version, nPlatforms) ==
    [version |-> version,
     image |-> [w |-> 4032, h |-> 3024],
     objects |-> Platforms(nPlatforms),
     spawns |-> [player |-> [x |-> 10, y |-> 80], exit |-> [x |-> 90, y |-> 20],
                 enemies |-> <<>>, pickups |-> <<>>],
     rules |-> <<>>]

\* ------------------------------------------------------------- model text

\* The text of a model reply: a body, possibly wrapped in a ```json fence.
\* The body is a JSON value or text that is no JSON at all.
NotJson == [t |-> "garbage"]
Text(fenced, body) == [fenced |-> fenced, body |-> body]
EmptyText == Text(FALSE, NotJson)

\* extractJson: strips a surrounding code fence from the reply text.
extractJson(text) == Text(FALSE, text.body)

\* JSON.parse: throws on text that is not JSON, else yields the value.
JSONparse(text) ==
    IF text.fenced \/ text.body.t \in {"garbage", "undefined"}
    THEN [threw |-> TRUE]
    ELSE [threw |-> FALSE, value |-> text.body]

\* ------------------------------------------------------------- validation

CountType(objects, type) ==
    Cardinality({i \in DOMAIN objects : objects[i].type = type})

RECURSIVE CapErrors(_, _)
CapErrors(objects, k) ==
    IF k > Len(TYPE_CAPS_ORDER) THEN <<>>
    ELSE LET type == TYPE_CAPS_ORDER[k]
             cap == TYPE_CAPS[type]
             count == CountType(objects, type)
         IN (IF count > cap
             THEN <<"Too many " \o type \o " objects: " \o ToString(count)
                    \o " (max " \o ToString(cap) \o ")">>
             ELSE <<>>)
            \o CapErrors(objects, k + 1)

\* Mutant of validateCaps: only the first type over its cap is reported.
validateCapsFirstOnly(objects) ==
    LET errors == CapErrors(objects, 1)
    IN [ok |-> Len(errors) = 0,
        errors |-> IF Len(errors) > 1 THEN <<errors[1]>> ELSE errors]

validateCaps(objects) ==
    LET errors == CapErrors(objects, 1)
    IN [ok |-> Len(errors) = 0, errors |-> errors]

\* Structural errors of a parsed value, as field-path-qualified messages.
StructuralErrors(parsed) ==
    IF parsed.t # "object" THEN <<<<"", "Expected object">>>>
    ELSE (IF parsed.v.version # 1
          THEN <<<<"version", "Invalid literal value, expected 1">>>> ELSE <<>>)
         \o (IF parsed.v.image.w <= 0 \/ parsed.v.image.h <= 0
             THEN <<<<"image", "Number must be greater than 0">>>> ELSE <<>>)
         \o (IF Len(parsed.v.objects) > MAX_OBJECTS
             THEN <<<<"objects", "Array must contain at most 25 element(s)">>>>
             ELSE <<>>)

\* validateScene: the structural validator, then the cap validator.
validateScene(parsed) ==
    LET structural == StructuralErrors(parsed)
    IN IF Len(structural) > 0 THEN [ok |-> FALSE, errors |-> structural]
       ELSE LET caps == validateCaps(parsed.v.objects)
            IN IF ~caps.ok THEN [ok |-> FALSE, errors |-> caps.errors]
               ELSE [ok |-> TRUE, scene |-> parsed.v]

\* ------------------------------------------------------------------ inputs

\* A value not assigned yet (a declared local, a pending promise).
None == [t |-> "undefined"]

\* What a request uploads: no file, a file that is no image or is over the
\* 10 MB limit (multer refuses both), a file sharp cannot decode, or an image
\* with its metadata (a width or height of 0 stands for a missing one).
NoFile == [kind |-> "none"]
NotAnImage == [kind |-> "not_image"]
TooLarge == [kind |-> "too_large"]
Corrupt == [kind |-> "corrupt"]
Image(width, height) == [kind |-> "image", width |-> width, height |-> height]
Uploads == {NoFile, NotAnImage, TooLarge, Corrupt, Image(800, 600), Image(2048, 1024)}

\* How openai.chat.completions.create settles: it rejects, or it resolves
\* with a reply whose content is a text or missing.
ApiError == [kind |-> "error"]
ApiReply(content) == [kind |-> "ok", content |-> content]
ReplyTexts ==
    {Text(FALSE, NotJson),
     Text(FALSE, JNull), Text(FALSE, JFalse), Text(FALSE, JZero),
     Text(FALSE, JEmptyString),
     Text(FALSE, JObject(Payload(1, 27))),
     Text(FALSE, JObject(Payload(1, 3))),
     Text(TRUE, JObject(Payload(1, 3)))}
ApiOutcomes == {ApiError} \cup {ApiReply(c) : c \in ReplyTexts \cup {None}}

\* ------------------------------------------------------------------- state

VARIABLES
    pc,              \* where each request's handler stands
    upload,          \* req.file of each request
    final,           \* finalW, finalH of each request
    callLog,         \* the model calls of each invocation: "call" and "settle"
    sent,            \* the messages of each model call the invocation issued
    rawText,         \* analyzeImage's local rawText
    v,               \* analyzeImage's local v (first validation)
    repairText,      \* analyzeImage's local repairText
    rv,              \* analyzeImage's local rv (repair validation)
    result,          \* what analyzeImage returned: source and a reference
    FALLBACK_SCENE,  \* the module-level object of server/fallback.ts
    response,        \* what res.status(..).json(..) sent
    call,            \* a call of a schema helper: the function and its argument
    returned,        \* what the successive executions of that call returned
    phase,           \* GameScene's lifecycle: constructed, init, running
    sceneData,       \* GameScene.sceneData
    score,           \* GameScene.score
    health,          \* GameScene.health
    gameWon,         \* GameScene.gameWon
    gameLost,        \* GameScene.gameLost
    invulnerableUntil, \* GameScene.invulnerableUntil
    now,             \* this.time.now, in milliseconds
    pickupGroup,     \* the pickup sprites of the run, with their bodies' state
    enemyGroup,      \* GameScene.enemyGroup
    damagedAt,       \* history: the times at which this run lowered health
    emitted,         \* history: how often this run emitted game-won, game-lost
    OPENAI_API_KEY,  \* the key the client build was given
    conversationHistory, \* the module-level array of game/openai.ts
    ask,             \* where each askNPC call stands, and what it returned
    asked,           \* the number of askNPC calls made
    canShare,        \* PlayScreen.canShare: whether sharing is configured
    shareState,      \* WinOverlay.shareState
    loseShareState,  \* PlayScreen.loseShareState
    sharing,         \* history: the share requests in flight, for each overlay
    resetTimers,     \* the pending 2-second reset timers, for each overlay
    clicks           \* the number of clicks on Share Level

gameVars == <<phase, sceneData, score, health, gameWon, gameLost,
              invulnerableUntil, now, pickupGroup, enemyGroup, damagedAt,
              emitted>>

npcVars == <<OPENAI_API_KEY, conversationHistory, ask, asked>>

uiVars == <<canShare, shareState, loseShareState, sharing, resetTimers, clicks>>

vars == <<pc, upload, final, callLog, sent, rawText, v, repairText, rv, result,
          FALLBACK_SCENE, response, call, returned, gameVars, npcVars, uiVars>>

\* The object a returned scene reference points to.
Deref(r) ==
    CASE result[r].scene = "FALLBACK_SCENE" -> FALLBACK_SCENE
      [] result[r].scene = "v.scene" -> v[r].scene
      [] result[r].scene = "rv.scene" -> rv[r].scene

\* The server after start-up, no request received yet.
ServerInit ==
    /\ pc = [r \in Requests |-> "idle"]
    /\ upload = [r \in Requests |-> None]
    /\ final = [r \in Requests |-> None]
    /\ callLog = [r \in Requests |-> <<>>]
    /\ sent = [r \in Requests |-> <<>>]
    /\ rawText = [r \in Requests |-> None]
    /\ v = [r \in Requests |-> None]
    /\ repairText = [r \in Requests |-> None]
    /\ rv = [r \in Requests |-> None]
    /\ result = [r \in Requests |-> None]
    /\ FALLBACK_SCENE = FALLBACK_SCENE_LITERAL
    /\ response = [r \in Requests |-> None]

\* A GameScene as constructed (its field initialisers), not started yet.
GameConstructed ==
    /\ phase = "constructed"
    /\ sceneData = None
    /\ score = 0
    /\ health = 10
    /\ gameWon = FALSE
    /\ gameLost = FALSE
    /\ invulnerableUntil = 0
    /\ now = 0
    /\ pickupGroup = <<>>
    /\ enemyGroup = None
    /\ damagedAt = <<>>
    /\ emitted = [won |-> 0, lost |-> 0]

NumCallers == 2
Callers == 1..NumCallers

\* A ChatMessage; n tells the askNPC call that pushed it (0: the module).
ChatMessage(role, content, n) == [role |-> role, content |-> content, n |-> n]
NPC_SYSTEM_MESSAGE == ChatMessage("system", "SYSTEM_PROMPT", 0)

\* The module game/openai.ts as loaded, no askNPC call made yet.
NpcLoaded ==
    /\ conversationHistory = <<NPC_SYSTEM_MESSAGE>>
    /\ ask = [c \in Callers |-> [pc |-> "idle", n |-> 0, returned |-> None]]
    /\ asked = 0

Overlays == {"win", "lose"}

\* The play screen with its overlays, no share started.
OverlaysIdle ==
    /\ shareState = "idle"
    /\ loseShareState = "idle"
    /\ sharing = [o \in Overlays |-> 0]
    /\ resetTimers = [o \in Overlays |-> 0]
    /\ clicks = 0

\* The client as loaded, with a key in its build.
ClientInit ==
    /\ OverlaysIdle
    /\ canShare = TRUE
    /\ GameConstructed
    /\ NpcLoaded
    /\ OPENAI_API_KEY = "sk-key"

\* The server process; it calls none of the client's schema helpers.
Init ==
    /\ ServerInit
    /\ ClientInit
    /\ call = None
    /\ returned = <<>>

\* ------------------------------------------------------------ analyzeImage

\* x ?? d, with a missing number written 0 and a missing text written None.
OrElse(x, d) == IF x = 0 THEN d ELSE x
ContentOrEmpty(content) == IF content = None THEN EmptyText ELSE content

\* Math.round(origH * (MAX_WIDTH / origW)) for positive sizes.
RoundedHeight(origW, origH) == (2 * origH * MAX_WIDTH + origW) \div (2 * origW)

\* Step 1 of the handler: the size the image is sent with.
FinalSize(meta) ==
    LET origW == OrElse(meta.width, MAX_WIDTH)
        origH == OrElse(meta.height, DEFAULT_HEIGHT)
    IN IF origW > MAX_WIDTH
       THEN [w |-> MAX_WIDTH, h |-> RoundedHeight(origW, origH)]
       ELSE [w |-> origW, h |-> origH]

\* Step 2 of the handler: the processed JPEG buffer as base64 text.
Base64Jpeg(file, size) == [base64 |-> [jpeg |-> file, w |-> size.w, h |-> size.h]]

SYSTEM_PROMPT == "SYSTEM_PROMPT"

\* The system turn and the user turn (image and instruction) that open the
\* messages of both model calls.  A text is the sequence of its pieces.
ContextMessages(imageBase64, mimeType, imageWidth, imageHeight) ==
    <<[role |-> "system", content |-> SYSTEM_PROMPT],
      [role |-> "user",
       content |->
           <<[type |-> "image_url",
              url |-> <<"data:", mimeType, ";base64,", imageBase64>>,
              detail |-> "low"],
             [type |-> "text",
              text |-> <<"Analyze this photo and generate a platformer level. The image dimensions are ",
                         imageWidth, "x", imageHeight, "px.">>]>>]>>

\* lines.join('\n') as the sequence of lines of the joined text: joining
\* nothing yields the empty text, which is one empty line.
JoinLines(lines) == IF Len(lines) = 0 THEN <<<<>>>> ELSE lines

\* Mutant of buildRepairPrompt: only the first error is listed.
buildRepairPromptFirstOnly(errors) ==
    <<<<"Your previous JSON response had validation errors:">>>>
    \o JoinLines([i \in 1..(IF Len(errors) > 0 THEN 1 ELSE 0) |-> <<"  - ", errors[i]>>])
    \o <<<<>>,
         <<"Please fix these issues and return corrected JSON only. Keep all the same data but fix the errors listed above. Remember:">>,
         <<"- \"version\" must be exactly 1">>,
         <<"- \"spawns.player\" and \"spawns.exit\" are required objects with x and y">>,
         <<"- All coordinate values must be numbers between 0.0 and 1.0">>>>

\* buildRepairPrompt: the prompt as the sequence of its lines, each line the
\* sequence of its pieces; an error becomes the line `  - ${e}`.
buildRepairPrompt(errors) ==
    <<<<"Your previous JSON response had validation errors:">>>>
    \o JoinLines([i \in 1..Len(errors) |-> <<"  - ", errors[i]>>])
    \o <<<<>>,
         <<"Please fix these issues and return corrected JSON only. Keep all the same data but fix the errors listed above. Remember:">>,
         <<"- \"version\" must be exactly 1">>,
         <<"- \"spawns.player\" and \"spawns.exit\" are required objects with x and y">>,
         <<"- All coordinate values must be numbers between 0.0 and 1.0">>>>

\* The messages of the repair call: the context again, the first reply as
\* the assistant's turn, and the repair prompt.
RepairMessages(context, text, errors) ==
    context
    \o <<[role |-> "assistant", content |-> text],
         [role |-> "user", content |-> buildRepairPrompt(errors)]>>

ReturnFallback == [scene |-> "FALLBACK_SCENE", source |-> "fallback"]

\* Mutant of ParseFirst: JSON.parse applied to the raw text, no extraction.
ParseFirstNoExtract(text) ==
    LET p == JSONparse(text)
    IN IF p.threw THEN JNull ELSE p.value

\* try { parsed = JSON.parse(extractJson(rawText)) } catch { parsed = null }
ParseFirst(text) ==
    LET p == JSONparse(extractJson(text))
    IN IF p.threw THEN JNull ELSE p.value

\* Mutant of FirstAttempt: a failed first call is retried through the repair
\* path instead of returning the fallback.
FirstAttemptRetryOnError(outcome) ==
    IF outcome.kind = "error"
    THEN [next |-> "repair", rawText |-> None,
          v |-> [ok |-> FALSE, errors |-> <<>>], result |-> None]
    ELSE LET text == ContentOrEmpty(outcome.content)
             parsed == ParseFirst(text)
         IN IF Truthy(parsed)
            THEN LET val == validateScene(parsed)
                 IN IF val.ok
                    THEN [next |-> "return", rawText |-> text, v |-> val,
                          result |-> [scene |-> "v.scene", source |-> "ai"]]
                    ELSE [next |-> "repair", rawText |-> text, v |-> val,
                          result |-> None]
            ELSE [next |-> "return", rawText |-> text, v |-> None,
                  result |-> ReturnFallback]

\* Mutant of FirstAttempt: a parsed object is returned as the scene without
\* looking at the validator's verdict.
FirstAttemptUnvalidated(outcome) ==
    IF outcome.kind = "error"
    THEN [next |-> "return", rawText |-> None, v |-> None, result |-> ReturnFallback]
    ELSE LET text == ContentOrEmpty(outcome.content)
             parsed == ParseFirst(text)
         IN IF Truthy(parsed) /\ parsed.t = "object"
            THEN [next |-> "return", rawText |-> text,
                  v |-> [ok |-> TRUE, scene |-> parsed.v],
                  result |-> [scene |-> "v.scene", source |-> "ai"]]
            ELSE [next |-> "return", rawText |-> text, v |-> None,
                  result |-> ReturnFallback]

\* analyzeImage from the settling of the first call up to its return or to
\* the issue of the repair call.  next is "return", "repair" or "throw".
FirstAttempt(outcome) ==
    IF outcome.kind = "error"
    THEN [next |-> "return", rawText |-> None, v |-> None, result |-> ReturnFallback]
    ELSE LET text == ContentOrEmpty(outcome.content)
             parsed == ParseFirst(text)
         IN IF Truthy(parsed)
            THEN LET val == validateScene(parsed)
                 IN IF val.ok
                    THEN [next |-> "return", rawText |-> text, v |-> val,
                          result |-> [scene |-> "v.scene", source |-> "ai"]]
                    ELSE [next |-> "repair", rawText |-> text, v |-> val,
                          result |-> None]
            ELSE [next |-> "return", rawText |-> text, v |-> None,
                  result |-> ReturnFallback]

\* Mutant of RepairAttempt: the repair call is made outside the try block, so
\* its rejection leaves analyzeImage as an exception.
RepairAttemptNoCatch(outcome) ==
    IF outcome.kind = "error"
    THEN [next |-> "throw", repairText |-> None, rv |-> None, result |-> None]
    ELSE LET text == ContentOrEmpty(outcome.content)
             p == JSONparse(extractJson(text))
         IN IF p.threw
            THEN [next |-> "return", repairText |-> text, rv |-> None,
                  result |-> ReturnFallback]
            ELSE LET val == validateScene(p.value)
                 IN IF val.ok
                    THEN [next |-> "return", repairText |-> text, rv |-> val,
                          result |-> [scene |-> "rv.scene", source |-> "ai_repaired"]]
                    ELSE [next |-> "return", repairText |-> text, rv |-> val,
                          result |-> ReturnFallback]

\* Mutant of RepairAttempt: a repaired payload that parses to an object is
\* returned without looking at the validator's verdict.
RepairAttemptUnvalidated(outcome) ==
    IF outcome.kind = "error"
    THEN [next |-> "return", repairText |-> None, rv |-> None,
          result |-> ReturnFallback]
    ELSE LET text == ContentOrEmpty(outcome.content)
             p == JSONparse(extractJson(text))
         IN IF p.threw \/ p.value.t # "object"
            THEN [next |-> "return", repairText |-> text, rv |-> None,
                  result |-> ReturnFallback]
            ELSE [next |-> "return", repairText |-> text,
                  rv |-> [ok |-> TRUE, scene |-> p.value.v],
                  result |-> [scene |-> "rv.scene", source |-> "ai_repaired"]]

\* analyzeImage from the settling of the repair call to its return: the whole
\* of it is inside one try block whose catch falls through to the fallback.
RepairAttempt(outcome) ==
    IF outcome.kind = "error"
    THEN [next |-> "return", repairText |-> None, rv |-> None,
          result |-> ReturnFallback]
    ELSE LET text == ContentOrEmpty(outcome.content)
             p == JSONparse(extractJson(text))
         IN IF p.threw
            THEN [next |-> "return", repairText |-> text, rv |-> None,
                  result |-> ReturnFallback]
            ELSE LET val == validateScene(p.value)
                 IN IF val.ok
                    THEN [next |-> "return", repairText |-> text, rv |-> val,
                          result |-> [scene |-> "rv.scene", source |-> "ai_repaired"]]
                    ELSE [next |-> "return", repairText |-> text, rv |-> val,
                          result |-> ReturnFallback]

\* ------------------------------------------------- POST /api/scene handler

ErrorBody(message) == [error |-> message]
Respond(r, status, body) ==
    response' = [response EXCEPT ![r] = [status |-> status, body |-> body]]

\* What multer's error handler answers for an upload it refuses.
MulterError(file) ==
    IF file = TooLarge
    THEN [status |-> 413, body |-> ErrorBody("File too large. Maximum size is 10MB.")]
    ELSE [status |-> 415, body |-> ErrorBody("Only image files are allowed")]

\* The request arrives.  multer refuses the upload (413, 415), or the handler
\* answers 400 when there is no file, or it runs to its first await (sharp
\* metadata).
Post(r) ==
    /\ pc[r] = "idle"
    /\ \E file \in Uploads :
        /\ upload' = [upload EXCEPT ![r] = file]
        /\ IF file \in {NotAnImage, TooLarge}
           THEN /\ Respond(r, MulterError(file).status, MulterError(file).body)
                /\ pc' = [pc EXCEPT ![r] = "responded"]
           ELSE IF file = NoFile
           THEN /\ Respond(r, 400, ErrorBody("No image file provided"))
                /\ pc' = [pc EXCEPT ![r] = "responded"]
           ELSE /\ pc' = [pc EXCEPT ![r] = "sharp"]
                /\ UNCHANGED response
    /\ UNCHANGED <<final, callLog, sent, rawText, v, repairText, rv, result,
                   FALLBACK_SCENE, call, returned, gameVars, npcVars, uiVars>>

\* The opening messages of request r's model calls, as analyzeImage builds
\* them from the arguments the handler passes.
Context(r, size) ==
    ContextMessages(Base64Jpeg(upload[r], size), "image/jpeg", size.w, size.h)

\* sharp settles.  A failure lands in the handler's catch, which sends
\* FALLBACK_SCENE; otherwise analyzeImage is entered and issues its first call.
Sharp(r) ==
    /\ pc[r] = "sharp"
    /\ IF upload[r].kind = "corrupt"
       THEN /\ Respond(r, 200, FALLBACK_SCENE)
            /\ pc' = [pc EXCEPT ![r] = "responded"]
            /\ UNCHANGED <<final, callLog, sent>>
       ELSE /\ final' = [final EXCEPT ![r] = FinalSize(upload[r])]
            /\ callLog' = [callLog EXCEPT ![r] = Append(@, "call")]
            /\ sent' = [sent EXCEPT ![r] = Append(@, Context(r, FinalSize(upload[r])))]
            /\ pc' = [pc EXCEPT ![r] = "first_call"]
            /\ UNCHANGED response
    /\ UNCHANGED <<upload, rawText, v, repairText, rv, result, FALLBACK_SCENE,
                   call, returned, gameVars, npcVars, uiVars>>

\* Where the handler stands once analyzeImage has taken a step.
PcAfter(next) ==
    CASE next = "return" -> "returned"
      [] next = "repair" -> "repair_call"
      [] next = "throw" -> "rejected"

\* The first model call settles and analyzeImage runs on to its next await
\* or to its return.
FirstCallSettles(r) ==
    /\ pc[r] = "first_call"
    /\ \E outcome \in ApiOutcomes :
        LET a == FirstAttempt(outcome)
        IN /\ rawText' = [rawText EXCEPT ![r] = a.rawText]
           /\ v' = [v EXCEPT ![r] = a.v]
           /\ result' = [result EXCEPT ![r] = a.result]
           /\ callLog' = [callLog EXCEPT ![r] =
                  IF a.next = "repair" THEN @ \o <<"settle", "call">>
                  ELSE Append(@, "settle")]
           /\ sent' = [sent EXCEPT ![r] =
                  IF a.next = "repair"
                  THEN Append(@, RepairMessages(Context(r, final[r]), a.rawText,
                                                a.v.errors))
                  ELSE @]
           /\ pc' = [pc EXCEPT ![r] = PcAfter(a.next)]
    /\ UNCHANGED <<upload, final, repairText, rv, FALLBACK_SCENE, response,
                   call, returned, gameVars, npcVars, uiVars>>

\* Mutant of RepairCallSettles: a repair that does not yield a valid scene is
\* tried again instead of falling back.
RepairCallSettlesRetry(r) ==
    /\ pc[r] = "repair_call"
    /\ \E outcome \in ApiOutcomes :
        LET a == RepairAttempt(outcome)
            again == a.result = ReturnFallback
        IN /\ repairText' = [repairText EXCEPT ![r] = a.repairText]
           /\ rv' = [rv EXCEPT ![r] = a.rv]
           /\ result' = [result EXCEPT ![r] = IF again THEN None ELSE a.result]
           /\ callLog' = [callLog EXCEPT ![r] =
                  IF again THEN @ \o <<"settle", "call">> ELSE Append(@, "settle")]
           /\ pc' = [pc EXCEPT ![r] = IF again THEN "repair_call" ELSE PcAfter(a.next)]
    /\ UNCHANGED <<upload, final, sent, rawText, v, FALLBACK_SCENE, response,
                   call, returned, gameVars, npcVars, uiVars>>

\* The repair call settles and analyzeImage returns.
RepairCallSettles(r) ==
    /\ pc[r] = "repair_call"
    /\ \E outcome \in ApiOutcomes :
        LET a == RepairAttempt(outcome)
        IN /\ repairText' = [repairText EXCEPT ![r] = a.repairText]
           /\ rv' = [rv EXCEPT ![r] = a.rv]
           /\ result' = [result EXCEPT ![r] = a.result]
           /\ callLog' = [callLog EXCEPT ![r] = Append(@, "settle")]
           /\ pc' = [pc EXCEPT ![r] = PcAfter(a.next)]
    /\ UNCHANGED <<upload, final, sent, rawText, v, FALLBACK_SCENE, response,
                   call, returned, gameVars, npcVars, uiVars>>

\* The handler resumes after `await analyzeImage(..)`: it overwrites the image
\* size of the scene it got and sends that scene; a rejection lands in the
\* catch, which sends FALLBACK_SCENE.
HandlerResume(r) ==
    /\ pc[r] \in {"returned", "rejected"}
    /\ IF pc[r] = "rejected"
       THEN /\ Respond(r, 200, FALLBACK_SCENE)
            /\ UNCHANGED <<v, rv, FALLBACK_SCENE>>
       ELSE LET scene == [Deref(r) EXCEPT !.image = final[r]]
            IN /\ FALLBACK_SCENE' =
                      IF result[r].scene = "FALLBACK_SCENE" THEN scene
                      ELSE FALLBACK_SCENE
               /\ v' = IF result[r].scene = "v.scene"
                       THEN [v EXCEPT ![r].scene = scene] ELSE v
               /\ rv' = IF result[r].scene = "rv.scene"
                        THEN [rv EXCEPT ![r].scene = scene] ELSE rv
               /\ Respond(r, 200, scene)
    /\ pc' = [pc EXCEPT ![r] = "responded"]
    /\ UNCHANGED <<upload, final, callLog, sent, rawText, repairText, result,
                   call, returned, gameVars, npcVars, uiVars>>

Next ==
    \E r \in Requests :
        \/ Post(r)
        \/ Sharp(r)
        \/ FirstCallSettles(r)
        \/ RepairCallSettles(r)
        \/ HandlerResume(r)

Spec == Init /\ [][Next]_vars

\* A step that needs no client: an await of some started request settles
\* (sharp, a model call) or a handler resumes.
Settle ==
    \E r \in Requests :
        Sharp(r) \/ FirstCallSettles(r) \/ RepairCallSettles(r) \/ HandlerResume(r)

\* The event loop does not idle while a settled await has a continuation to
\* run.  Whether a request arrives is up to the clients.
Fairness == WF_vars(Settle)

FairSpec == Spec /\ Fairness

\* ---------------------------------------------------- vocabulary of claims

Sources == {"ai", "ai_repaired", "fallback"}

\* The number of model calls an invocation has issued.
Calls(r) == Cardinality({i \in DOMAIN callLog[r] : callLog[r][i] = "call"})

\* analyzeImage has returned to the handler of request r.
Returned(r) == result[r] # None

\* The first call was rejected (transport or API failure): it has settled and
\* rawText was never assigned.
FirstCallFailed(r) == Len(callLog[r]) >= 2 /\ rawText[r] = None

\* What extraction and parsing make of a reply text, with no catch applied.
Parse(text) == JSONparse(extractJson(text))
Unparsable(text) == text # None /\ Parse(text).threw
ParsesInvalid(text) ==
    text # None /\ ~Parse(text).threw /\ ~validateScene(Parse(text).value).ok
ParsesValid(text) ==
    text # None /\ ~Parse(text).threw /\ validateScene(Parse(text).value).ok

\* The scene invariants that both scene shapes share, and the caps on objects.
SceneValid(scene) ==
    /\ scene.version = 1
    /\ scene.image.w > 0 /\ scene.image.h > 0
    /\ "objects" \in DOMAIN scene =>
          /\ Len(scene.objects) <= MAX_OBJECTS
          /\ \A type \in DOMAIN TYPE_CAPS :
                 CountType(scene.objects, type) <= TYPE_CAPS[type]

\* ------------------------------------------------------------------ claims

\* C1: analyzeImage never throws and always terminates: no invocation is ever
\* rejected, every result carries the source "ai", "ai_repaired" or
\* "fallback", and whatever the two calls deliver there comes a point from
\* which every invocation that was started has returned.
C1_NeverThrowsAlwaysReturns ==
    /\ [](\A r \in Requests :
            /\ pc[r] # "rejected"
            /\ Returned(r) => result[r].source \in Sources)
    /\ <>[](\A r \in Requests : Len(callLog[r]) > 0 => Returned(r))

\* C1 witness: an invocation returned after its repair call delivered a
\* parsable but invalid payload.
C1_Witness ==
    \E r \in Requests :
        /\ Returned(r)
        /\ ParsesInvalid(rawText[r])
        /\ ParsesInvalid(repairText[r])

\* C2: an invocation issues at most two model calls, one after the other: its
\* call log is a prefix of call, settle, call, settle.
C2_AtMostTwoSequentialCalls ==
    \A r \in Requests :
        /\ Calls(r) <= 2
        /\ Len(callLog[r]) <= 4
        /\ callLog[r] = SubSeq(<<"call", "settle", "call", "settle">>, 1, Len(callLog[r]))

\* C2 witness: an invocation that made both calls and returned.
C2_Witness ==
    \E r \in Requests : Returned(r) /\ Calls(r) = 2 /\ Len(callLog[r]) = 4

\* C3 (as claimed): once analyzeImage has returned after a first reply from
\* which no JSON could be parsed, the repair call has been issued.
C3_UnparsableFirstTriggersRepair ==
    \A r \in Requests :
        (Returned(r) /\ Unparsable(rawText[r])) => Calls(r) = 2

\* C4 (as claimed): once analyzeImage has returned after a first reply that
\* parsed to a value that is no valid scene, the repair call has been issued.
C4_InvalidFirstTriggersRepair ==
    \A r \in Requests :
        (Returned(r) /\ ParsesInvalid(rawText[r])) => Calls(r) = 2

\* C5: when the first call fails at the transport level, analyzeImage returns
\* the fallback with source "fallback" at once: one call, no repair call.
C5_TransportFailureFallsBack ==
    \A r \in Requests :
        FirstCallFailed(r) =>
            /\ result[r] = ReturnFallback
            /\ callLog[r] = <<"call", "settle">>
            /\ pc[r] \in {"returned", "responded"}

\* C5 witness: an invocation whose first call failed has returned.
C5_Witness ==
    \E r \in Requests : FirstCallFailed(r) /\ pc[r] = "returned"

\* C6: the source is "ai" exactly when the first reply parsed and passed
\* validation; then one call was made and the scene returned is the
\* validator's output for the first reply.
C6_AiIffFirstValid ==
    \A r \in Requests :
        Returned(r) =>
            /\ (result[r].source = "ai") <=> ParsesValid(rawText[r])
            /\ result[r].source = "ai" =>
                  /\ Calls(r) = 1
                  /\ result[r].scene = "v.scene"
                  /\ pc[r] = "returned" =>
                        Deref(r) = validateScene(Parse(rawText[r]).value).scene

\* C6 witness: a fenced valid first reply was returned with source "ai".
C6_Witness ==
    \E r \in Requests :
        /\ pc[r] = "returned"
        /\ result[r].source = "ai"
        /\ rawText[r].fenced

\* C7: the source is "ai_repaired" exactly when the first reply failed
\* validation and the repaired reply parsed and passed validation; 27
\* platforms followed by a capped repair give "ai_repaired" and a scene
\* within the caps; any failure of the repair gives the fallback.
C7_RepairedIffRepairValid ==
    \A r \in Requests :
        Returned(r) =>
            /\ (result[r].source = "ai_repaired") <=>
                   (ParsesInvalid(rawText[r]) /\ ParsesValid(repairText[r]))
            /\ (rawText[r] = Text(FALSE, JObject(Payload(1, 27)))
                /\ ParsesValid(repairText[r])) =>
                   /\ result[r].source = "ai_repaired"
                   /\ result[r].scene = "rv.scene"
                   /\ SceneValid(Deref(r))
            /\ (Len(callLog[r]) = 4 /\ ~ParsesValid(repairText[r])) =>
                   result[r] = ReturnFallback

\* C7 witness: 27 platforms, then a capped repair, returned as "ai_repaired".
C7_Witness ==
    \E r \in Requests :
        /\ pc[r] = "returned"
        /\ rawText[r] = Text(FALSE, JObject(Payload(1, 27)))
        /\ ParsesValid(repairText[r])
        /\ result[r].source = "ai_repaired"

\* C8 (as claimed): when the first reply and the repaired reply (where one
\* was requested) are unparsable, analyzeImage returns source "fallback" and
\* a scene deep-equal to the authored fallback scene.
C8_UnparsableGivesAuthoredFallback ==
    \A r \in Requests :
        (/\ pc[r] = "returned"
         /\ Unparsable(rawText[r])
         /\ Calls(r) = 2 => Unparsable(repairText[r])) =>
            /\ result[r].source = "fallback"
            /\ Deref(r) = FALLBACK_SCENE_LITERAL

\* C9: every scene analyzeImage returns is valid: with source "ai" or
\* "ai_repaired" it is the scene of a validation of this invocation that
\* succeeded, with source "fallback" it is the FALLBACK_SCENE object.
C9_ReturnedSceneValidated ==
    \A r \in Requests :
        Returned(r) =>
            /\ result[r].source = "ai" =>
                   result[r].scene = "v.scene" /\ v[r] # None /\ v[r].ok
            /\ result[r].source = "ai_repaired" =>
                   result[r].scene = "rv.scene" /\ rv[r] # None /\ rv[r].ok
            /\ result[r].source = "fallback" => result[r].scene = "FALLBACK_SCENE"
            /\ SceneValid(Deref(r))

\* C9 witness: a model payload has been returned (source "ai").
C9_Witness ==
    \E r \in Requests :
        /\ pc[r] = "returned"
        /\ result[r].source = "ai"
        /\ "objects" \in DOMAIN Deref(r)

\* C10 (as claimed): FALLBACK_SCENE keeps its authored value, and a scene
\* that analyzeImage returned stays as the validator produced it.
C10_FallbackNeverModified ==
    /\ FALLBACK_SCENE = FALLBACK_SCENE_LITERAL
    /\ \A r \in Requests :
           (Returned(r) /\ result[r].source = "ai") =>
               Deref(r) = validateScene(Parse(rawText[r]).value).scene

\* The scene a request's own replies determine: the validated first reply,
\* else the validated repaired reply, else the authored fallback scene.
SoloScene(r) ==
    IF ParsesValid(rawText[r])
    THEN validateScene(Parse(rawText[r]).value).scene
    ELSE IF ParsesInvalid(rawText[r]) /\ ParsesValid(repairText[r])
    THEN validateScene(Parse(repairText[r]).value).scene
    ELSE FALLBACK_SCENE_LITERAL

\* The response a request gets when it is the only request the process ever
\* serves: a function of its upload and of the replies it received.
SoloResponse(r) ==
    CASE upload[r] = NoFile ->
             [status |-> 400, body |-> ErrorBody("No image file provided")]
      [] upload[r] \in {NotAnImage, TooLarge} -> MulterError(upload[r])
      [] upload[r] = Corrupt -> [status |-> 200, body |-> FALLBACK_SCENE_LITERAL]
      [] OTHER ->
             [status |-> 200,
              body |-> [SoloScene(r) EXCEPT !.image = FinalSize(upload[r])]]

\* C11 (as claimed): the response to a request is determined by its own image
\* and the model replies it received: whatever other requests came earlier or
\* run concurrently, it is the response the request gets when served alone.
C11_ResponseIndependentOfOtherRequests ==
    \A r \in Requests :
        pc[r] = "responded" => response[r] = SoloResponse(r)

\* The list items of a repair prompt: its lines of the form `  - <error>`.
PromptItems(prompt) == SelectSeq(prompt, LAMBDA l : Len(l) = 2 /\ l[1] = "  - ")

\* Validation error messages, and the lists of them up to MaxErrors long
\* (an error may occur more than once in a list).
ErrorSamples ==
    {"version: Invalid literal value, expected 1",
     "objects: Array must contain at most 25 element(s)",
     "Too many platform objects: 27 (max 12)"}
ErrorLists == UNION {[1..n -> ErrorSamples] : n \in 0..MaxErrors}

\* The prompt lists exactly the given errors: one item per error, in order.
Itemizes(prompt, errors) ==
    /\ PromptItems(prompt) = [i \in 1..Len(errors) |-> <<"  - ", errors[i]>>]
    /\ Len(errors) > 0 => Len(prompt) = Len(errors) + 6

\* C12: the repair request carries the original context (system prompt and
\* the request's image), then the first raw reply verbatim as the assistant's
\* turn, then a repair prompt that lists every validation error of the first
\* attempt, one item per error, in order, none dropped or altered; the prompt
\* builder does so for every list of errors, however long.
C12_RepairRequestCarriesContextAndErrors ==
    /\ \A r \in Requests :
        /\ Len(sent[r]) = Calls(r)
        /\ Len(sent[r]) = 2 =>
            LET first == sent[r][1]
                repair == sent[r][2]
            IN /\ Len(repair) = 4
               /\ repair[1] = [role |-> "system", content |-> SYSTEM_PROMPT]
               /\ repair[2].role = "user"
               /\ repair[2].content[1].url[4] = Base64Jpeg(upload[r], final[r])
               /\ SubSeq(repair, 1, 2) = first
               /\ repair[3] = [role |-> "assistant", content |-> rawText[r]]
               /\ repair[4].role = "user"
               /\ Len(v[r].errors) > 0
               /\ Itemizes(repair[4].content, v[r].errors)
    /\ \A errors \in ErrorLists : Itemizes(buildRepairPrompt(errors), errors)

\* A repair request was sent after a first reply that failed validation, and
\* its prompt lists the error of that reply.
C12_Witness ==
    \E r \in Requests :
        /\ Len(sent[r]) = 2
        /\ rawText[r] = Text(FALSE, JObject(Payload(1, 27)))
        /\ PromptItems(sent[r][2][4].content) =
               <<<<"  - ", <<"objects", "Array must contain at most 25 element(s)">>>>>>

\* ---------------------------------------------------------------- the schema
\* src/shared/schema/scene_v1.schema.ts.  Every number of a scene document is
\* kept in hundredths here (1 is 100, 0.05 is 5, 1024 is 102400), so that an
\* integer is a multiple of 100.  A key an object does not have reads as the
\* value None (undefined).

JNum(n) == [t |-> "number", v |-> n]
JStr(s) == [t |-> "string", v |-> s]
JBool(b) == [t |-> "boolean", v |-> b]
JArr(items) == [t |-> "array", v |-> items]
Get(obj, key) == IF key \in DOMAIN obj.v THEN obj.v[key] ELSE None

\* A number of the schema source as JavaScript prints it.
ShowNum(h) ==
    LET whole == ToString(h \div 100)
        frac == h % 100
    IN IF frac = 0 THEN whole
       ELSE IF frac % 10 = 0 THEN whole \o "." \o ToString(frac \div 10)
       ELSE IF frac < 10 THEN whole \o ".0" \o ToString(frac)
       ELSE whole \o "." \o ToString(frac)

\* What zod's safeParse yields for a value at a path: the issues found, in
\* the order zod reports them, and the parsed value (None for a key that
\* stays absent from the output).
Issue(path, message) == [path |-> path, message |-> message]
Ok(value) == [issues |-> <<>>, value |-> value]
Fail(issues) == [issues |-> issues, value |-> None]

InvalidType(expected, j, path) ==
    Issue(path, IF j.t = "undefined" THEN "Required"
                ELSE "Expected " \o expected \o ", received " \o j.t)

RECURSIVE FlatIssues(_, _)
FlatIssues(results, i) ==
    IF i > Len(results) THEN <<>>
    ELSE results[i].issues \o FlatIssues(results, i + 1)

\* Mutant of ZNumberRange: any number is accepted, whatever the range.
ZNumberUnbounded(j, path, min, max) ==
    IF j.t # "number" THEN Fail(<<InvalidType("number", j, path)>>) ELSE Ok(j)

\* z.number().min(min).max(max)
ZNumberRange(j, path, min, max) ==
    IF j.t # "number" THEN Fail(<<InvalidType("number", j, path)>>)
    ELSE [issues |->
              (IF j.v < min
               THEN <<Issue(path, "Number must be greater than or equal to "
                                  \o ShowNum(min))>>
               ELSE <<>>)
              \o (IF j.v > max
                  THEN <<Issue(path, "Number must be less than or equal to "
                                     \o ShowNum(max))>>
                  ELSE <<>>),
          value |-> j]

\* z.number().int().positive()
ZPositiveInt(j, path) ==
    IF j.t # "number" THEN Fail(<<InvalidType("number", j, path)>>)
    ELSE [issues |->
              (IF j.v % 100 # 0
               THEN <<Issue(path, "Expected integer, received float")>> ELSE <<>>)
              \o (IF j.v <= 0
                  THEN <<Issue(path, "Number must be greater than 0")>> ELSE <<>>),
          value |-> j]

\* z.string()
ZString(j, path) ==
    IF j.t # "string" THEN Fail(<<InvalidType("string", j, path)>>) ELSE Ok(j)

\* Mutant of ZNonEmptyString: the empty string is accepted.
ZNonEmptyStringLax(j, path) ==
    IF j.t # "string" THEN Fail(<<InvalidType("string", j, path)>>) ELSE Ok(j)

\* z.string().min(1)
ZNonEmptyString(j, path) ==
    IF j.t # "string" THEN Fail(<<InvalidType("string", j, path)>>)
    ELSE IF j.v = ""
    THEN [issues |-> <<Issue(path, "String must contain at least 1 character(s)")>>,
          value |-> j]
    ELSE Ok(j)

\* z.boolean()
ZBoolean(j, path) ==
    IF j.t # "boolean" THEN Fail(<<InvalidType("boolean", j, path)>>) ELSE Ok(j)

\* Mutant of ZLiteralOne: the value is coerced to a number first, and any
\* positive version is let through.
ZLiteralCoerced(j, path) ==
    IF (j.t = "number" /\ j.v > 0) \/ (j.t = "string" /\ j.v = "1") THEN Ok(JNum(100))
    ELSE Fail(<<Issue(path, "Invalid literal value, expected 1")>>)

\* z.literal(1)
ZLiteralOne(j, path) ==
    IF j.t = "number" /\ j.v = 100 THEN Ok(j)
    ELSE Fail(<<Issue(path, "Invalid literal value, expected 1")>>)

RECURSIVE JoinQuoted(_, _)
JoinQuoted(values, i) ==
    IF i > Len(values) THEN ""
    ELSE (IF i > 1 THEN " | " ELSE "") \o "'" \o values[i] \o "'"
         \o JoinQuoted(values, i + 1)

\* z.enum(values)
ZEnum(j, path, values) ==
    IF j.t # "string"
    THEN Fail(<<InvalidType(JoinQuoted(values, 1), j, path)>>)
    ELSE IF \E i \in 1..Len(values) : values[i] = j.v THEN Ok(j)
    ELSE Fail(<<Issue(path, "Invalid enum value. Expected " \o JoinQuoted(values, 1)
                            \o ", received '" \o j.v \o "'")>>)

\* schema.optional(): an absent value is accepted and stays absent.
ZOptional(j, inner) == IF j.t = "undefined" THEN Ok(None) ELSE inner

\* z.object(shape): the keys of the shape are parsed in their order
\* (results[i] is what the schema of keys[i] yields); keys that are not in
\* the shape are stripped, or kept as they are with passthrough.
ZObject(j, path, keys, passthrough, results) ==
    IF j.t # "object" THEN Fail(<<InvalidType("object", j, path)>>)
    ELSE LET At(k) == CHOOSE i \in 1..Len(keys) : keys[i] = k
             shape == {keys[i] : i \in 1..Len(keys)}
             present == {k \in shape : results[At(k)].value.t # "undefined"}
             extra == IF passthrough THEN DOMAIN j.v \ shape ELSE {}
         IN [issues |-> FlatIssues(results, 1),
             value |-> JObject([k \in present \cup extra |->
                           IF k \in present THEN results[At(k)].value
                           ELSE j.v[k]])]

\* The path of the i-th element of the array at a path; indexes start at 0.
ElementPath(path, i) == Append(path, ToString(i - 1))

\* z.array(element).max(max): the length issue comes before the issues of
\* the elements (results[i] is what the element schema yields for j.v[i]);
\* max = -1 stands for no limit.
ZArray(j, path, max, results) ==
    IF j.t # "array" THEN Fail(<<InvalidType("array", j, path)>>)
    ELSE [issues |->
              (IF max >= 0 /\ Len(j.v) > max
               THEN <<Issue(path, "Array must contain at most " \o ToString(max)
                                  \o " element(s)")>>
               ELSE <<>>)
              \o FlatIssues(results, 1),
          value |-> JArr([i \in 1..Len(j.v) |-> results[i].value])]

\* BoundsNormalizedSchema
BoundsNormalizedKeys == <<"x", "y", "w", "h">>
BoundsNormalizedField(key, j, path) == ZNumberRange(j, path, 0, 100)
BoundsNormalizedSchema(j, path) ==
    ZObject(j, path, BoundsNormalizedKeys, FALSE,
            [i \in 1..Len(BoundsNormalizedKeys) |->
                LET key == BoundsNormalizedKeys[i]
                IN BoundsNormalizedField(key, Get(j, key), Append(path, key))])

ObjectTypeEnum == <<"platform", "obstacle", "collectible", "hazard", "enemy">>
ObjectCategoryEnum == <<"plant", "electric", "food", "furniture", "other">>
SurfaceTypeEnum == <<"solid", "bouncy", "slippery", "breakable", "soft">>

\* GameMechanicsSchema
GameMechanicsKeys == <<"damage_amount", "speed_multiplier">>
GameMechanicsField(key, j, path) ==
    CASE key = "damage_amount" -> ZOptional(j, ZNumberRange(j, path, 0, 5000))
      [] key = "speed_multiplier" -> ZOptional(j, ZNumberRange(j, path, 50, 200))
\* Mutant of GameMechanicsSchema: no passthrough, unknown keys are stripped.
GameMechanicsSchemaStrip(j, path) ==
    ZOptional(j, ZObject(j, path, GameMechanicsKeys, FALSE,
                         [i \in 1..Len(GameMechanicsKeys) |->
                             LET key == GameMechanicsKeys[i]
                             IN GameMechanicsField(key, Get(j, key),
                                                   Append(path, key))]))

GameMechanicsSchema(j, path) ==
    ZOptional(j, ZObject(j, path, GameMechanicsKeys, TRUE,
                         [i \in 1..Len(GameMechanicsKeys) |->
                             LET key == GameMechanicsKeys[i]
                             IN GameMechanicsField(key, Get(j, key),
                                                   Append(path, key))]))

\* SceneObjectSchema
SceneObjectKeys ==
    <<"id", "type", "label", "confidence", "bounds_normalized", "surface_type",
      "game_mechanics", "category", "enemy_spawn_anchor">>
SceneObjectField(key, j, path) ==
    CASE key = "id" -> ZNonEmptyString(j, path)
      [] key = "type" -> ZEnum(j, path, ObjectTypeEnum)
      [] key = "label" -> ZOptional(j, ZString(j, path))
      [] key = "confidence" -> ZOptional(j, ZNumberRange(j, path, 0, 100))
      [] key = "bounds_normalized" -> BoundsNormalizedSchema(j, path)
      [] key = "surface_type" -> ZOptional(j, ZEnum(j, path, SurfaceTypeEnum))
      [] key = "game_mechanics" -> GameMechanicsSchema(j, path)
      [] key = "category" -> ZOptional(j, ZEnum(j, path, ObjectCategoryEnum))
      [] key = "enemy_spawn_anchor" -> ZOptional(j, ZBoolean(j, path))
SceneObjectSchema(j, path) ==
    ZObject(j, path, SceneObjectKeys, FALSE,
            [i \in 1..Len(SceneObjectKeys) |->
                LET key == SceneObjectKeys[i]
                IN SceneObjectField(key, Get(j, key), Append(path, key))])

\* NormalizedPointSchema
NormalizedPointKeys == <<"x", "y">>
NormalizedPointField(key, j, path) == ZNumberRange(j, path, 0, 100)
NormalizedPointSchema(j, path) ==
    ZObject(j, path, NormalizedPointKeys, FALSE,
            [i \in 1..Len(NormalizedPointKeys) |->
                LET key == NormalizedPointKeys[i]
                IN NormalizedPointField(key, Get(j, key), Append(path, key))])

\* NormalizedPointSchema.extend({ type: z.string().optional() })
TypedPointKeys == <<"x", "y", "type">>
TypedPointField(key, j, path) ==
    IF key = "type" THEN ZOptional(j, ZString(j, path))
    ELSE ZNumberRange(j, path, 0, 100)
TypedPointSchema(j, path) ==
    ZObject(j, path, TypedPointKeys, FALSE,
            [i \in 1..Len(TypedPointKeys) |->
                LET key == TypedPointKeys[i]
                IN TypedPointField(key, Get(j, key), Append(path, key))])

\* SpawnsSchema; .default([]) parses [] in place of an absent value.
SpawnsKeys == <<"player", "exit", "enemies", "pickups">>
SpawnsField(key, j, path) ==
    IF key \in {"player", "exit"} THEN NormalizedPointSchema(j, path)
    ELSE IF j.t = "undefined" THEN Ok(JArr(<<>>))
    ELSE ZArray(j, path, -1,
                [i \in 1..Len(j.v) |-> TypedPointSchema(j.v[i], ElementPath(path, i))])
SpawnsSchema(j, path) ==
    ZObject(j, path, SpawnsKeys, FALSE,
            [i \in 1..Len(SpawnsKeys) |->
                LET key == SpawnsKeys[i]
                IN SpawnsField(key, Get(j, key), Append(path, key))])

\* ImageDimsSchema
ImageDimsKeys == <<"w", "h">>
ImageDimsField(key, j, path) == ZPositiveInt(j, path)
ImageDimsSchema(j, path) ==
    ZObject(j, path, ImageDimsKeys, FALSE,
            [i \in 1..Len(ImageDimsKeys) |->
                LET key == ImageDimsKeys[i]
                IN ImageDimsField(key, Get(j, key), Append(path, key))])

\* z.unknown()
ZUnknown(j, path) == Ok(j)

\* Mutant of SceneV1Field: an absent array is required, not defaulted.
SceneV1FieldNoDefaults(key, j, path) ==
    CASE key = "version" -> ZLiteralOne(j, path)
      [] key = "image" -> ImageDimsSchema(j, path)
      [] key = "objects" ->
             ZArray(j, path, MAX_OBJECTS,
                    [i \in 1..Len(j.v) |->
                        SceneObjectSchema(j.v[i], ElementPath(path, i))])
      [] key = "spawns" -> SpawnsSchema(j, path)
      [] key = "rules" ->
             ZArray(j, path, -1,
                    [i \in 1..Len(j.v) |-> ZUnknown(j.v[i], ElementPath(path, i))])

\* The shape of SceneV1Schema.
SceneV1Field(key, j, path) ==
    CASE key = "version" -> ZLiteralOne(j, path)
      [] key = "image" -> ImageDimsSchema(j, path)
      [] key = "objects" ->
             IF j.t = "undefined" THEN Ok(JArr(<<>>))
             ELSE ZArray(j, path, MAX_OBJECTS,
                         [i \in 1..Len(j.v) |->
                             SceneObjectSchema(j.v[i], ElementPath(path, i))])
      [] key = "spawns" -> SpawnsSchema(j, path)
      [] key = "rules" ->
             IF j.t = "undefined" THEN Ok(JArr(<<>>))
             ELSE ZArray(j, path, -1,
                         [i \in 1..Len(j.v) |->
                             ZUnknown(j.v[i], ElementPath(path, i))])

\* SceneV1Schema.safeParse(input)
SceneV1Keys == <<"version", "image", "objects", "spawns", "rules">>
SceneV1Schema(input) ==
    ZObject(input, <<>>, SceneV1Keys, FALSE,
            [i \in 1..Len(SceneV1Keys) |->
                LET key == SceneV1Keys[i]
                IN SceneV1Field(key, Get(input, key), <<key>>)])

\* path.join('.')
RECURSIVE PathJoin(_, _)
PathJoin(path, i) ==
    IF i > Len(path) THEN ""
    ELSE (IF i > 1 THEN "." ELSE "") \o path[i] \o PathJoin(path, i + 1)

\* The objects of a parsed scene as validateCaps reads them: by their type.
TypesOf(objects) == [i \in 1..Len(objects.v) |-> [type |-> objects.v[i].v.type.v]]

\* Mutant of parseSceneV1: the per-type caps are not looked at.
parseSceneV1NoCaps(input) ==
    LET zodResult == SceneV1Schema(input)
    IN IF Len(zodResult.issues) > 0
       THEN [ok |-> FALSE,
             errors |-> [i \in 1..Len(zodResult.issues) |->
                            PathJoin(zodResult.issues[i].path, 1) \o ": "
                            \o zodResult.issues[i].message]]
       ELSE [ok |-> TRUE, data |-> zodResult.value]

parseSceneV1(input) ==
    LET zodResult == SceneV1Schema(input)
    IN IF Len(zodResult.issues) > 0
       THEN [ok |-> FALSE,
             errors |-> [i \in 1..Len(zodResult.issues) |->
                            PathJoin(zodResult.issues[i].path, 1) \o ": "
                            \o zodResult.issues[i].message]]
       ELSE LET data == zodResult.value
                capResult == validateCaps(TypesOf(data.v.objects))
            IN IF ~capResult.ok
               THEN [ok |-> FALSE, errors |-> capResult.errors]
               ELSE [ok |-> TRUE, data |-> data]

\* ENEMY_ANCHOR_CATEGORIES
ENEMY_ANCHOR_CATEGORIES == {"plant", "electric"}

\* Mutant of isEnemySpawnAnchor: only the explicit flag counts.
isEnemySpawnAnchorFlagOnly(obj) ==
    IF obj.t \in {"null", "undefined"} THEN [threw |-> TRUE]
    ELSE LET flag == Get(obj, "enemy_spawn_anchor")
         IN [threw |-> FALSE, value |-> flag.t = "boolean" /\ flag.v = TRUE]

\* isEnemySpawnAnchor; reading a property of null or undefined throws.
isEnemySpawnAnchor(obj) ==
    IF obj.t \in {"null", "undefined"} THEN [threw |-> TRUE]
    ELSE LET flag == Get(obj, "enemy_spawn_anchor")
             category == Get(obj, "category")
         IN [threw |-> FALSE,
             value |->
                 IF flag.t = "boolean" /\ flag.v = TRUE THEN TRUE
                 ELSE IF Truthy(category) /\ category.t = "string"
                         /\ category.v \in ENEMY_ANCHOR_CATEGORIES
                 THEN TRUE
                 ELSE FALSE]

\* Array.prototype.filter: a new array of the elements the callback accepts
\* (keep[i] is what it answers for items[i]), from the first to the last.
RECURSIVE Filter(_, _, _)
Filter(items, keep, i) ==
    IF i > Len(items) THEN <<>>
    ELSE (IF keep[i] THEN <<items[i]>> ELSE <<>>) \o Filter(items, keep, i + 1)

\* Mutant of getEnemySpawnAnchors: the anchors come out last to first.
getEnemySpawnAnchorsReversed(objects) ==
    IF \E i \in 1..Len(objects) : isEnemySpawnAnchor(objects[i]).threw
    THEN [threw |-> TRUE]
    ELSE LET kept == Filter(objects, [i \in 1..Len(objects) |->
                                isEnemySpawnAnchor(objects[i]).value], 1)
         IN [threw |-> FALSE,
             value |-> [k \in 1..Len(kept) |-> kept[Len(kept) + 1 - k]]]

\* getEnemySpawnAnchors
getEnemySpawnAnchors(objects) ==
    IF \E i \in 1..Len(objects) : isEnemySpawnAnchor(objects[i]).threw
    THEN [threw |-> TRUE]
    ELSE [threw |-> FALSE,
          value |-> Filter(objects, [i \in 1..Len(objects) |->
                               isEnemySpawnAnchor(objects[i]).value], 1)]

\* ------------------------------------------------- inputs of the schema

Point(x, y) == JObject([x |-> JNum(x), y |-> JNum(y)])
TypedPoint(type, x, y) == JObject([type |-> JStr(type), x |-> JNum(x), y |-> JNum(y)])
Bounds(x, y, w, h) ==
    JObject([x |-> JNum(x), y |-> JNum(y), w |-> JNum(w), h |-> JNum(h)])
SceneObject(id, type) ==
    JObject([id |-> JStr(id), type |-> JStr(type),
             bounds_normalized |-> Bounds(10, 20, 30, 5)])

\* j with the value at a path replaced; None removes the key.
RECURSIVE SetIn(_, _, _)
SetIn(j, path, val) ==
    IF Len(path) = 0 THEN val
    ELSE IF j.t = "array"
    THEN JArr([j.v EXCEPT ![path[1]] = SetIn(@, Tail(path), val)])
    ELSE IF Len(path) = 1 /\ val.t = "undefined"
    THEN JObject([k \in DOMAIN j.v \ {path[1]} |-> j.v[k]])
    ELSE JObject([k \in DOMAIN j.v \cup {path[1]} |->
                     IF k = path[1] THEN SetIn(Get(j, k), Tail(path), val)
                     ELSE j.v[k]])

\* count objects of a type, with ids type1, type2, ...
ObjectsOfType(type, count) ==
    [i \in 1..count |-> SceneObject(type \o ToString(i), type)]

\* The objects of a scene with counts[k] objects of the k-th type.
RECURSIVE ObjectsOf(_, _)
ObjectsOf(counts, k) ==
    IF k > Len(counts) THEN <<>>
    ELSE ObjectsOfType(TYPE_CAPS_ORDER[k], counts[k]) \o ObjectsOf(counts, k + 1)

\* A scene that is valid and uses every part of the schema.
BaseScene ==
    JObject([version |-> JNum(100),
             image |-> JObject([w |-> JNum(102400), h |-> JNum(76800)]),
             objects |-> JArr(<<
                 [SceneObject("shelf", "platform") EXCEPT
                     !.v = [label |-> JStr("shelf"), confidence |-> JNum(87),
                            surface_type |-> JStr("solid"),
                            category |-> JStr("furniture")] @@ @],
                 [SceneObject("fern", "enemy") EXCEPT
                     !.v = [category |-> JStr("plant"),
                            enemy_spawn_anchor |-> JBool(TRUE),
                            game_mechanics |->
                                JObject([damage_amount |-> JNum(1000),
                                         glow |-> JStr("green")])] @@ @]>>),
             spawns |-> JObject([player |-> Point(5, 85),
                                 exit |-> Point(90, 15),
                                 enemies |-> JArr(<<TypedPoint("crawler", 60, 40)>>),
                                 pickups |-> JArr(<<TypedPoint("coin", 30, 75),
                                                    Point(0, 100)>>)]),
             rules |-> JArr(<<JObject([id |-> JStr("gravity multiplier"),
                                       param |-> JNum(70)])>>)])

\* Documents derived from BaseScene by edits, each with the errors that
\* parseSceneV1 has to report for it (none when the document is valid).
Variants ==
    <<
      [edits |-> <<>>,
       errors |-> <<>>],
      [edits |-> <<[path |-> <<"objects">>, val |-> None]>>,
       errors |-> <<>>],
      [edits |-> <<[path |-> <<"rules">>, val |-> None]>>,
       errors |-> <<>>],
      [edits |-> <<[path |-> <<"spawns", "enemies">>, val |-> None]>>,
       errors |-> <<>>],
      [edits |-> <<[path |-> <<"spawns", "pickups">>, val |-> None]>>,
       errors |-> <<>>],
      [edits |-> <<[path |-> <<"objects">>, val |-> None], [path |-> <<"rules">>, val |-> None], [path |-> <<"spawns", "enemies">>, val |-> None], [path |-> <<"spawns", "pickups">>, val |-> None]>>,
       errors |-> <<>>],
      [edits |-> <<[path |-> <<"version">>, val |-> JNum(200)]>>,
       errors |-> <<"version: Invalid literal value, expected 1">>],
      [edits |-> <<[path |-> <<"version">>, val |-> JNum(0)]>>,
       errors |-> <<"version: Invalid literal value, expected 1">>],
      [edits |-> <<[path |-> <<"version">>, val |-> JNum(150)]>>,
       errors |-> <<"version: Invalid literal value, expected 1">>],
      [edits |-> <<[path |-> <<"version">>, val |-> JStr("1")]>>,
       errors |-> <<"version: Invalid literal value, expected 1">>],
      [edits |-> <<[path |-> <<"version">>, val |-> JBool(TRUE)]>>,
       errors |-> <<"version: Invalid literal value, expected 1">>],
      [edits |-> <<[path |-> <<"version">>, val |-> None]>>,
       errors |-> <<"version: Invalid literal value, expected 1">>],
      [edits |-> <<[path |-> <<"objects", 1, "bounds_normalized">>, val |-> Bounds(0, 0, 100, 100)]>>,
       errors |-> <<>>],
      [edits |-> <<[path |-> <<"objects", 1, "confidence">>, val |-> JNum(0)], [path |-> <<"objects", 2, "confidence">>, val |-> JNum(100)]>>,
       errors |-> <<>>],
      [edits |-> <<[path |-> <<"spawns", "player">>, val |-> Point(0, 100)], [path |-> <<"spawns", "exit">>, val |-> Point(100, 0)]>>,
       errors |-> <<>>],
      [edits |-> <<[path |-> <<"objects", 1, "bounds_normalized", "x">>, val |-> JNum(101)]>>,
       errors |-> <<"objects.0.bounds_normalized.x: Number must be less than or equal to 1">>],
      [edits |-> <<[path |-> <<"objects", 2, "bounds_normalized", "y">>, val |-> JNum(-1)]>>,
       errors |-> <<"objects.1.bounds_normalized.y: Number must be greater than or equal to 0">>],
      [edits |-> <<[path |-> <<"objects", 1, "bounds_normalized", "w">>, val |-> JNum(250)]>>,
       errors |-> <<"objects.0.bounds_normalized.w: Number must be less than or equal to 1">>],
      [edits |-> <<[path |-> <<"objects", 2, "bounds_normalized", "h">>, val |-> JNum(-50)]>>,
       errors |-> <<"objects.1.bounds_normalized.h: Number must be greater than or equal to 0">>],
      [edits |-> <<[path |-> <<"objects", 1, "bounds_normalized", "x">>, val |-> JStr("0.5")]>>,
       errors |-> <<"objects.0.bounds_normalized.x: Expected number, received string">>],
      [edits |-> <<[path |-> <<"objects", 2, "bounds_normalized", "h">>, val |-> JNull]>>,
       errors |-> <<"objects.1.bounds_normalized.h: Expected number, received null">>],
      [edits |-> <<[path |-> <<"objects", 1, "bounds_normalized", "w">>, val |-> None]>>,
       errors |-> <<"objects.0.bounds_normalized.w: Required">>],
      [edits |-> <<[path |-> <<"objects", 1, "bounds_normalized">>, val |-> None]>>,
       errors |-> <<"objects.0.bounds_normalized: Required">>],
      [edits |-> <<[path |-> <<"objects", 2, "bounds_normalized">>, val |-> JArr(<<JNum(0), JNum(0), JNum(10), JNum(10)>>)]>>,
       errors |-> <<"objects.1.bounds_normalized: Expected object, received array">>],
      [edits |-> <<[path |-> <<"objects", 1, "confidence">>, val |-> JNum(150)]>>,
       errors |-> <<"objects.0.confidence: Number must be less than or equal to 1">>],
      [edits |-> <<[path |-> <<"objects", 1, "confidence">>, val |-> JNum(-10)]>>,
       errors |-> <<"objects.0.confidence: Number must be greater than or equal to 0">>],
      [edits |-> <<[path |-> <<"spawns", "player">>, val |-> None]>>,
       errors |-> <<"spawns.player: Required">>],
      [edits |-> <<[path |-> <<"spawns", "exit">>, val |-> None]>>,
       errors |-> <<"spawns.exit: Required">>],
      [edits |-> <<[path |-> <<"spawns", "player">>, val |-> None], [path |-> <<"spawns", "exit">>, val |-> None]>>,
       errors |-> <<"spawns.player: Required", "spawns.exit: Required">>],
      [edits |-> <<[path |-> <<"spawns">>, val |-> None]>>,
       errors |-> <<"spawns: Required">>],
      [edits |-> <<[path |-> <<"spawns", "player", "x">>, val |-> JNum(120)]>>,
       errors |-> <<"spawns.player.x: Number must be less than or equal to 1">>],
      [edits |-> <<[path |-> <<"spawns", "player", "y">>, val |-> JStr("low")]>>,
       errors |-> <<"spawns.player.y: Expected number, received string">>],
      [edits |-> <<[path |-> <<"spawns", "exit", "y">>, val |-> JNum(-20)]>>,
       errors |-> <<"spawns.exit.y: Number must be greater than or equal to 0">>],
      [edits |-> <<[path |-> <<"spawns", "exit", "x">>, val |-> None]>>,
       errors |-> <<"spawns.exit.x: Required">>],
      [edits |-> <<[path |-> <<"spawns", "enemies", 1, "x">>, val |-> JNum(-5)]>>,
       errors |-> <<"spawns.enemies.0.x: Number must be greater than or equal to 0">>],
      [edits |-> <<[path |-> <<"spawns", "enemies", 1, "y">>, val |-> JBool(TRUE)]>>,
       errors |-> <<"spawns.enemies.0.y: Expected number, received boolean">>],
      [edits |-> <<[path |-> <<"spawns", "pickups", 2, "y">>, val |-> JNum(101)]>>,
       errors |-> <<"spawns.pickups.1.y: Number must be less than or equal to 1">>],
      [edits |-> <<[path |-> <<"spawns", "pickups", 1, "x">>, val |-> JStr("0.3")]>>,
       errors |-> <<"spawns.pickups.0.x: Expected number, received string">>],
      [edits |-> <<[path |-> <<"objects", 1, "id">>, val |-> JStr("")]>>,
       errors |-> <<"objects.0.id: String must contain at least 1 character(s)">>],
      [edits |-> <<[path |-> <<"objects", 2, "id">>, val |-> None]>>,
       errors |-> <<"objects.1.id: Required">>],
      [edits |-> <<[path |-> <<"objects", 2, "type">>, val |-> JStr("tree")]>>,
       errors |-> <<"objects.1.type: Invalid enum value. Expected 'platform' | 'obstacle' | 'collectible' | 'hazard' | 'enemy', received 'tree'">>],
      [edits |-> <<[path |-> <<"objects", 1, "type">>, val |-> JStr("Platform")]>>,
       errors |-> <<"objects.0.type: Invalid enum value. Expected 'platform' | 'obstacle' | 'collectible' | 'hazard' | 'enemy', received 'Platform'">>],
      [edits |-> <<[path |-> <<"image", "w">>, val |-> JNum(0)]>>,
       errors |-> <<"image.w: Number must be greater than 0">>],
      [edits |-> <<[path |-> <<"image", "h">>, val |-> JNum(-76800)]>>,
       errors |-> <<"image.h: Number must be greater than 0">>],
      [edits |-> <<[path |-> <<"image", "w">>, val |-> JNum(102450)]>>,
       errors |-> <<"image.w: Expected integer, received float">>],
      [edits |-> <<[path |-> <<"image", "h">>, val |-> JNum(-50)]>>,
       errors |-> <<"image.h: Expected integer, received float", "image.h: Number must be greater than 0">>],
      [edits |-> <<[path |-> <<"image", "h">>, val |-> JStr("768")]>>,
       errors |-> <<"image.h: Expected number, received string">>],
      [edits |-> <<[path |-> <<"image", "w">>, val |-> None]>>,
       errors |-> <<"image.w: Required">>],
      [edits |-> <<[path |-> <<"image">>, val |-> None]>>,
       errors |-> <<"image: Required">>],
      [edits |-> <<[path |-> <<"version">>, val |-> JNum(200)], [path |-> <<"image", "w">>, val |-> JNum(0)], [path |-> <<"objects", 1, "id">>, val |-> JStr("")], [path |-> <<"spawns", "exit">>, val |-> None]>>,
       errors |-> <<"version: Invalid literal value, expected 1", "image.w: Number must be greater than 0", "objects.0.id: String must contain at least 1 character(s)", "spawns.exit: Required">>]
    >>

RECURSIVE ApplyEdits(_, _, _)
ApplyEdits(j, edits, i) ==
    IF i > Len(edits) THEN j
    ELSE ApplyEdits(SetIn(j, edits[i].path, edits[i].val), edits, i + 1)

VariantScene(i) == ApplyEdits(BaseScene, Variants[i].edits, 1)

\* How many objects of a type a generated list has: none, exactly the cap,
\* or up to MaxExcess more.
CountsFor(type) ==
    {0, TYPE_CAPS[type]} \cup (TYPE_CAPS[type] + 1 .. TYPE_CAPS[type] + MaxExcess)
CountVectors ==
    {<<a, b, c, d, e>> :
        a \in CountsFor("platform"), b \in CountsFor("obstacle"),
        c \in CountsFor("collectible"), d \in CountsFor("hazard"),
        e \in CountsFor("enemy")}
Total(counts) == counts[1] + counts[2] + counts[3] + counts[4] + counts[5]

\* The count vectors of the documents given to parseSceneV1: up to a little
\* over MAX_OBJECTS objects, among them 25 and more within every cap.
ParseVectors ==
    {counts \in CountVectors : Total(counts) <= MAX_OBJECTS + MaxExcess}
    \cup {<<12, 8, 5 + k, 0, 0>> : k \in 0..MaxExcess}

CapScene(counts) == SetIn(BaseScene, <<"objects">>, JArr(ObjectsOf(counts, 1)))

\* A document with two defects: version 2 and 13 platforms.
TwoDefectsScene == SetIn(CapScene(<<13, 0, 0, 0, 0>>), <<"version">>, JNum(200))

\* The lists given to validateCaps: objects by type, some of a type that has
\* no cap, in either order.
Reverse(seq) == [i \in 1..Len(seq) |-> seq[Len(seq) + 1 - i]]
CapList(counts, extra, reversed) ==
    LET objects == [i \in 1..extra |-> [type |-> "decoration"]]
                   \o TypesOf(JArr(ObjectsOf(counts, 1)))
    IN IF reversed THEN Reverse(objects) ELSE objects

\* Scene objects with every category or none, and the flag set, unset or absent.
AnchorObject(category, flag) ==
    SetIn(SetIn(SceneObject("lamp", "obstacle"), <<"category">>, category),
          <<"enemy_spawn_anchor">>, flag)
AnchorObjects ==
    {AnchorObject(category, flag) :
        category \in {None} \cup {JStr(ObjectCategoryEnum[i]) : i \in 1..5},
        flag \in {None, JBool(TRUE), JBool(FALSE)}}

\* BaseScene without some of the keys that have a default.
OmitKeys(j, keys) == JObject([k \in DOMAIN j.v \ keys |-> j.v[k]])
DefaultedKeys == {"objects", "rules", "enemies", "pickups"}
Omitted(keys) ==
    SetIn(OmitKeys(BaseScene, keys), <<"spawns">>, OmitKeys(BaseScene.v.spawns, keys))

\* game_mechanics objects: each known key absent, at an end of its range or
\* just outside it, with or without keys the schema does not know.
DamageAmounts == {None, JNum(0), JNum(5000), JNum(5001), JNum(-1)}
SpeedMultipliers == {None, JNum(50), JNum(200), JNum(49), JNum(201)}
Mechanics(damage, speed, unknown) ==
    SetIn(SetIn(JObject(IF unknown
                        THEN [glow |-> JStr("green"), jump_boost |-> JNum(300)]
                        ELSE <<>>),
                <<"damage_amount">>, damage),
          <<"speed_multiplier">>, speed)
MechanicsScene(damage, speed, unknown) ==
    SetIn(BaseScene, <<"objects", 2, "game_mechanics">>,
          Mechanics(damage, speed, unknown))

\* JSON.stringify of a scene of the server (res.json): the numbers of the
\* model's scene are whole numbers for version and image and hundredths for
\* the coordinates.
PointToJson(point) ==
    JObject([k \in DOMAIN point |->
                IF k = "type" THEN JStr(point[k]) ELSE JNum(point[k])])
SurfaceToJson(surface) ==
    JObject([type |-> JStr(surface.type),
             poly |-> JArr([i \in 1..Len(surface.poly) |->
                               JArr(<<JNum(surface.poly[i][1]),
                                      JNum(surface.poly[i][2])>>)])])
FallbackToJson(scene) ==
    JObject([version |-> JNum(100 * scene.version),
             image |-> JObject([w |-> JNum(100 * scene.image.w),
                                h |-> JNum(100 * scene.image.h)]),
             detections |-> JArr(scene.detections),
             spawns |-> JObject(
                 [player |-> PointToJson(scene.spawns.player),
                  exit |-> PointToJson(scene.spawns.exit),
                  enemies |-> JArr([i \in 1..Len(scene.spawns.enemies) |->
                                       PointToJson(scene.spawns.enemies[i])]),
                  pickups |-> JArr([i \in 1..Len(scene.spawns.pickups) |->
                                       PointToJson(scene.spawns.pickups[i])])]),
             surfaces |-> JArr([i \in 1..Len(scene.surfaces) |->
                                   SurfaceToJson(scene.surfaces[i])]),
             rules |-> JArr(scene.rules)])

\* Lists of up to MaxListLen objects, anchors and others, repetitions included.
ListObjects ==
    {SetIn(SceneObject("cable", "hazard"), <<"enemy_spawn_anchor">>, JBool(TRUE)),
     SetIn(SceneObject("fern", "obstacle"), <<"category">>, JStr("plant")),
     SetIn(SetIn(SceneObject("apple", "collectible"), <<"category">>, JStr("food")),
           <<"enemy_spawn_anchor">>, JBool(FALSE)),
     SceneObject("floor", "platform")}
ObjectLists == UNION {[1..n -> ListObjects] : n \in 0..MaxListLen}

\* ------------------------------------------- the schema helpers, called

\* A caller holds an argument and calls one of the exported helpers on it.
SchemaInit ==
    /\ ServerInit
    /\ ClientInit
    /\ returned = <<>>
    /\ \/ \E i \in 1..Len(Variants) :
            call = [fn |-> "parseSceneV1", arg |-> VariantScene(i)]
       \/ \E counts \in ParseVectors :
            call = [fn |-> "parseSceneV1", arg |-> CapScene(counts)]
       \/ \E keys \in SUBSET DefaultedKeys :
            call = [fn |-> "parseSceneV1", arg |-> Omitted(keys)]
       \/ call = [fn |-> "parseSceneV1", arg |-> FallbackToJson(FALLBACK_SCENE_LITERAL)]
       \/ call = [fn |-> "parseSceneV1", arg |-> TwoDefectsScene]
       \/ \E damage \in DamageAmounts, speed \in SpeedMultipliers,
             unknown \in BOOLEAN :
            call = [fn |-> "parseSceneV1",
                    arg |-> MechanicsScene(damage, speed, unknown)]
       \/ \E counts \in CountVectors, extra \in 0..1, reversed \in BOOLEAN :
            call = [fn |-> "validateCaps", arg |-> CapList(counts, extra, reversed)]
       \/ \E obj \in AnchorObjects :
            call = [fn |-> "isEnemySpawnAnchor", arg |-> obj]
       \/ \E objects \in ObjectLists :
            call = [fn |-> "getEnemySpawnAnchors", arg |-> objects]

serverVars == <<pc, upload, final, callLog, sent, rawText, v, repairText, rv,
                result, FALLBACK_SCENE, response>>

\* One execution of the call; the helper gets the argument and its caller
\* the value it returns.
Return(value) ==
    /\ Len(returned) < MaxCalls
    /\ returned' = Append(returned, value)
    /\ UNCHANGED <<call, serverVars, gameVars, npcVars, uiVars>>

CallParseSceneV1 ==
    /\ call.fn = "parseSceneV1"
    /\ Return(parseSceneV1(call.arg))

CallValidateCaps ==
    /\ call.fn = "validateCaps"
    /\ Return(validateCaps(call.arg))

CallIsEnemySpawnAnchor ==
    /\ call.fn = "isEnemySpawnAnchor"
    /\ Return(isEnemySpawnAnchor(call.arg))

CallGetEnemySpawnAnchors ==
    /\ call.fn = "getEnemySpawnAnchors"
    /\ Return(getEnemySpawnAnchors(call.arg))

SchemaNext ==
    \/ CallParseSceneV1
    \/ CallValidateCaps
    \/ CallIsEnemySpawnAnchor
    \/ CallGetEnemySpawnAnchors

SchemaSpec == SchemaInit /\ [][SchemaNext]_vars

\* ------------------------------------------------- claims on the schema

\* The calls of a helper that have returned.
Called(fn) == call.fn = fn /\ Len(returned) > 0

Range(seq) == {seq[i] : i \in 1..Len(seq)}

\* C13: whenever parseSceneV1 answers ok, the scene it returns has at most 25
\* objects and, for every type, no more objects of that type than its cap.
C13_ParsedSceneWithinCaps ==
    Called("parseSceneV1") =>
        \A n \in 1..Len(returned) :
            returned[n].ok =>
                LET objects == returned[n].data.v.objects.v
                IN /\ Len(objects) <= 25
                   /\ \A type \in DOMAIN TYPE_CAPS :
                        Cardinality({i \in 1..Len(objects) :
                                        objects[i].v.type.v = type})
                            <= TYPE_CAPS[type]

\* C13 witness: a document with 25 objects, 12 of them platforms and every
\* type at or under its cap, was accepted.
C13_Witness ==
    /\ Called("parseSceneV1")
    /\ returned[1].ok
    /\ Len(returned[1].data.v.objects.v) = 25
    /\ Cardinality({i \in 1..25 :
                       returned[1].data.v.objects.v[i].v.type.v = "platform"}) = 12

\* C14: the errors of validateCaps are exactly one message for every type
\* whose count is over its cap, naming the type, the count and the cap, and
\* none for any other type; ok holds exactly when no type is over its cap.
C14_CapErrorsExactlyTheViolations ==
    Called("validateCaps") =>
        \A n \in 1..Len(returned) :
            LET Count(type) ==
                    Cardinality({i \in 1..Len(call.arg) : call.arg[i].type = type})
                over == {type \in DOMAIN TYPE_CAPS : Count(type) > TYPE_CAPS[type]}
                Message(type) ==
                    "Too many " \o type \o " objects: " \o ToString(Count(type))
                    \o " (max " \o ToString(TYPE_CAPS[type]) \o ")"
            IN /\ returned[n].ok <=> over = {}
               /\ Len(returned[n].errors) = Cardinality(over)
               /\ Range(returned[n].errors) = {Message(type) : type \in over}

\* C14 witness: a list with 13 platforms and 3 enemies (and 8 hazards, an
\* object of an unknown type) got the two messages, platforms first.
C14_Witness ==
    /\ Called("validateCaps")
    /\ Len(call.arg) = 25
    /\ returned[1] = [ok |-> FALSE,
                      errors |-> <<"Too many platform objects: 13 (max 12)",
                                   "Too many enemy objects: 3 (max 2)">>]

\* C15: isEnemySpawnAnchor(o) is true exactly when o's enemy_spawn_anchor is
\* true or o's category is plant or electric; an object with neither field
\* gives false; the function never throws.
C15_AnchorIffFlagOrCategory ==
    Called("isEnemySpawnAnchor") =>
        \A n \in 1..Len(returned) :
            LET o == call.arg.v
                flagged == "enemy_spawn_anchor" \in DOMAIN o
                           /\ o.enemy_spawn_anchor = JBool(TRUE)
                anchoring == "category" \in DOMAIN o
                             /\ o.category \in {JStr("plant"), JStr("electric")}
            IN /\ ~returned[n].threw
               /\ returned[n].value <=> (flagged \/ anchoring)
               /\ ({"enemy_spawn_anchor", "category"} \cap DOMAIN o = {}) =>
                      returned[n].value = FALSE

\* C15 witness: an electric object whose flag is false is an anchor.
C15_Witness ==
    /\ Called("isEnemySpawnAnchor")
    /\ call.arg = AnchorObject(JStr("electric"), JBool(FALSE))
    /\ returned[1] = [threw |-> FALSE, value |-> TRUE]

\* The positions of the anchors of a list, and the k-th of them.
AnchorPositions(objects) ==
    {i \in 1..Len(objects) :
        \/ "enemy_spawn_anchor" \in DOMAIN objects[i].v
           /\ objects[i].v.enemy_spawn_anchor = JBool(TRUE)
        \/ "category" \in DOMAIN objects[i].v
           /\ objects[i].v.category \in {JStr("plant"), JStr("electric")}}
KthOf(positions, k) ==
    CHOOSE i \in positions : Cardinality({j \in positions : j < i}) = k - 1

\* C16: getEnemySpawnAnchors returns exactly the anchors of its argument, in
\* their original order; it leaves the argument as it was, and a later call
\* on the same argument returns the same.
C16_AnchorsFilteredInOrder ==
    /\ [](Called("getEnemySpawnAnchors") =>
            \A n \in 1..Len(returned) :
                LET positions == AnchorPositions(call.arg)
                IN /\ ~returned[n].threw
                   /\ returned[n].value =
                          [k \in 1..Cardinality(positions) |->
                              call.arg[KthOf(positions, k)]]
                   /\ returned[n] = returned[1])
    /\ [][call' = call]_vars

\* C16 witness: of three objects the first and the last, two different
\* anchors, were returned in that order, twice.
C16_Witness ==
    /\ Called("getEnemySpawnAnchors")
    /\ Len(returned) = 2
    /\ Len(call.arg) = 3
    /\ call.arg[1] # call.arg[3]
    /\ returned[2].value = <<call.arg[1], call.arg[3]>>

\* C17: a document that leaves out objects, rules, spawns.enemies and
\* spawns.pickups (any of them, or all four) and is valid otherwise is
\* accepted, and each one left out is the empty sequence in the result.
C17_OmittedArraysDefaultToEmpty ==
    Called("parseSceneV1") =>
        \A keys \in SUBSET DefaultedKeys :
            call.arg = Omitted(keys) =>
                \A n \in 1..Len(returned) :
                    /\ returned[n].ok
                    /\ LET data == returned[n].data.v
                       IN /\ "objects" \in keys => data.objects = JArr(<<>>)
                          /\ "rules" \in keys => data.rules = JArr(<<>>)
                          /\ "enemies" \in keys => data.spawns.v.enemies = JArr(<<>>)
                          /\ "pickups" \in keys => data.spawns.v.pickups = JArr(<<>>)

\* C17 witness: the document without any of the four was accepted with four
\* empty sequences.
C17_Witness ==
    /\ Called("parseSceneV1")
    /\ DOMAIN call.arg.v = {"version", "image", "spawns"}
    /\ DOMAIN call.arg.v.spawns.v = {"player", "exit"}
    /\ returned[1].ok
    /\ returned[1].data.v.objects = JArr(<<>>)
    /\ returned[1].data.v.rules = JArr(<<>>)
    /\ returned[1].data.v.spawns.v.enemies = JArr(<<>>)
    /\ returned[1].data.v.spawns.v.pickups = JArr(<<>>)

\* The version of a document is the number 1.
VersionIsOne(doc) ==
    /\ "version" \in DOMAIN doc.v
    /\ doc.v.version.t = "number"
    /\ doc.v.version.v = 100

\* C18: a document whose version is not the number 1 (2, say, or the string
\* "1", or none) is rejected with an error whose path is version; the version
\* is never coerced: an accepted scene has the version its document had.
C18_OtherVersionsRejected ==
    Called("parseSceneV1") =>
        \A n \in 1..Len(returned) :
            /\ ~VersionIsOne(call.arg) =>
                   /\ ~returned[n].ok
                   /\ "version: Invalid literal value, expected 1"
                          \in Range(returned[n].errors)
            /\ returned[n].ok => returned[n].data.v.version = call.arg.v.version

\* C18 witness: the document with version 2 was rejected with that error only.
C18_Witness ==
    /\ Called("parseSceneV1")
    /\ call.arg.t = "object"
    /\ "version" \in DOMAIN call.arg.v
    /\ call.arg.v.version.t = "number"
    /\ call.arg.v.version.v = 200
    /\ ~returned[1].ok
    /\ returned[1].errors = <<"version: Invalid literal value, expected 1">>

\* A number between 0 and 1.
InUnit(j) == j.t = "number" /\ 0 <= j.v /\ j.v <= 100

\* C19: in every accepted scene every normalised coordinate (x, y, w, h of
\* every object's bounds; x, y of the player, the exit, every enemy and every
\* pickup) and every confidence that is present is a number in [0, 1].
C19_AcceptedCoordinatesInUnitRange ==
    Called("parseSceneV1") =>
        \A n \in 1..Len(returned) :
            returned[n].ok =>
                LET data == returned[n].data.v
                    spawns == data.spawns.v
                IN /\ \A i \in 1..Len(data.objects.v) :
                        LET o == data.objects.v[i].v
                        IN /\ \A c \in {"x", "y", "w", "h"} :
                                InUnit(o.bounds_normalized.v[c])
                           /\ "confidence" \in DOMAIN o => InUnit(o.confidence)
                   /\ \A c \in {"x", "y"} :
                        /\ InUnit(spawns.player.v[c])
                        /\ InUnit(spawns.exit.v[c])
                        /\ \A i \in 1..Len(spawns.enemies.v) :
                               InUnit(spawns.enemies.v[i].v[c])
                        /\ \A i \in 1..Len(spawns.pickups.v) :
                               InUnit(spawns.pickups.v[i].v[c])

\* C19 witness: a scene whose coordinates reach both ends of the range (an
\* object covering the whole image) was accepted.
C19_Witness ==
    /\ Called("parseSceneV1")
    /\ returned[1].ok
    /\ Len(returned[1].data.v.objects.v) = 2
    /\ returned[1].data.v.objects.v[1].v.bounds_normalized = Bounds(0, 0, 100, 100)

\* The errors a document's defects call for, each qualified by the path of
\* the field: of a coordinate that is missing, no number or out of [0, 1] ...
CoordinateDefects(j, p) ==
    IF j.t = "undefined" THEN {p \o ": Required"}
    ELSE IF j.t # "number" THEN {p \o ": Expected number, received " \o j.t}
    ELSE (IF j.v < 0 THEN {p \o ": Number must be greater than or equal to 0"} ELSE {})
         \cup (IF j.v > 100 THEN {p \o ": Number must be less than or equal to 1"}
               ELSE {})

\* ... of an object of coordinates (a point, a bounding box) ...
CoordinatesDefects(j, p, keys) ==
    IF j.t = "undefined" THEN {p \o ": Required"}
    ELSE IF j.t # "object" THEN {p \o ": Expected object, received " \o j.t}
    ELSE UNION {CoordinateDefects(Get(j, c), p \o "." \o c) : c \in keys}

\* ... of an image dimension that is no positive integer ...
DimensionDefects(j, p) ==
    IF j.t = "undefined" THEN {p \o ": Required"}
    ELSE IF j.t # "number" THEN {p \o ": Expected number, received " \o j.t}
    ELSE (IF j.v % 100 # 0 THEN {p \o ": Expected integer, received float"} ELSE {})
         \cup (IF j.v <= 0 THEN {p \o ": Number must be greater than 0"} ELSE {})

\* ... of an object: an empty id, an unknown type, its bounds ...
ObjectDefects(o, p) ==
    (IF Get(o, "id") = JStr("")
     THEN {p \o ".id: String must contain at least 1 character(s)"} ELSE {})
    \cup (IF Get(o, "type").t = "string"
             /\ Get(o, "type").v \notin DOMAIN TYPE_CAPS
          THEN {p \o ".type: Invalid enum value. Expected 'platform' | 'obstacle' | "
                \o "'collectible' | 'hazard' | 'enemy', received '"
                \o Get(o, "type").v \o "'"}
          ELSE {})
    \cup CoordinatesDefects(Get(o, "bounds_normalized"), p \o ".bounds_normalized",
                            {"x", "y", "w", "h"})

\* ... of a list of spawn points, when the document has one ...
PointsDefects(j, p) ==
    IF j.t # "array" THEN {}
    ELSE UNION {CoordinatesDefects(j.v[i], p \o "." \o ToString(i - 1), {"x", "y"}) :
                    i \in 1..Len(j.v)}

\* ... and of a whole document.
DocumentDefects(doc) ==
    LET image == Get(doc, "image")
        spawns == Get(doc, "spawns")
        objects == Get(doc, "objects")
    IN (IF image.t = "undefined" THEN {"image: Required"}
        ELSE DimensionDefects(Get(image, "w"), "image.w")
             \cup DimensionDefects(Get(image, "h"), "image.h"))
       \cup (IF spawns.t = "undefined" THEN {"spawns: Required"}
             ELSE CoordinatesDefects(Get(spawns, "player"), "spawns.player", {"x", "y"})
                  \cup CoordinatesDefects(Get(spawns, "exit"), "spawns.exit", {"x", "y"})
                  \cup PointsDefects(Get(spawns, "enemies"), "spawns.enemies")
                  \cup PointsDefects(Get(spawns, "pickups"), "spawns.pickups"))
       \cup (IF objects.t # "array" THEN {}
             ELSE UNION {ObjectDefects(objects.v[i], "objects." \o ToString(i - 1)) :
                             i \in 1..Len(objects.v)})

\* C20: parseSceneV1 rejects a document that lacks spawns.player or
\* spawns.exit, or an object's bounds_normalized, or has a coordinate that is
\* no number or is outside [0, 1], an empty id, an unknown type, or an image
\* width or height that is no positive integer; and for each such defect the
\* errors hold a message qualified by the path of the field.
C20_DefectsRejectedWithPaths ==
    Called("parseSceneV1") =>
        \A n \in 1..Len(returned) :
            DocumentDefects(call.arg) # {} =>
                /\ ~returned[n].ok
                /\ DocumentDefects(call.arg) \subseteq Range(returned[n].errors)

\* C20 witness: a document with an empty id, no exit and an image of width 0
\* (and version 2) was rejected with an error for each.
C20_Witness ==
    /\ Called("parseSceneV1")
    /\ DocumentDefects(call.arg) =
           {"image.w: Number must be greater than 0",
            "objects.0.id: String must contain at least 1 character(s)",
            "spawns.exit: Required"}
    /\ ~returned[1].ok
    /\ Len(returned[1].errors) = 4

\* The errors the known keys of a game_mechanics object call for.
MechanicsDefects(gm, p) ==
    LET damage == Get(gm, "damage_amount")
        speed == Get(gm, "speed_multiplier")
    IN (IF damage.t = "number" /\ damage.v < 0
        THEN {p \o ".damage_amount: Number must be greater than or equal to 0"}
        ELSE {})
       \cup (IF damage.t = "number" /\ damage.v > 5000
             THEN {p \o ".damage_amount: Number must be less than or equal to 50"}
             ELSE {})
       \cup (IF speed.t = "number" /\ speed.v < 50
             THEN {p \o ".speed_multiplier: Number must be greater than or equal to 0.5"}
             ELSE {})
       \cup (IF speed.t = "number" /\ speed.v > 200
             THEN {p \o ".speed_multiplier: Number must be less than or equal to 2"}
             ELSE {})

\* C21: of an object's game_mechanics, an accepted scene keeps every key,
\* the unknown ones included, with its value; a damage_amount outside
\* [0, 50] or a speed_multiplier outside [0.5, 2.0] is rejected with its
\* error, whether or not unknown keys are present.
C21_MechanicsPassthroughKeepsRangeChecks ==
    (Called("parseSceneV1") /\ Get(call.arg, "objects").t = "array") =>
        \A n \in 1..Len(returned) :
            \A i \in 1..Len(call.arg.v.objects.v) :
                LET gm == Get(call.arg.v.objects.v[i], "game_mechanics")
                    defects == MechanicsDefects(gm, "objects." \o ToString(i - 1)
                                                    \o ".game_mechanics")
                IN gm.t = "object" =>
                    /\ defects # {} =>
                           /\ ~returned[n].ok
                           /\ defects \subseteq Range(returned[n].errors)
                    /\ returned[n].ok =>
                           returned[n].data.v.objects.v[i].v.game_mechanics = gm

\* C21 witness: a game_mechanics object with both known keys at the end of
\* their range and two unknown keys came out of an accepted scene unchanged.
C21_Witness ==
    /\ Called("parseSceneV1")
    /\ returned[1].ok
    /\ Len(returned[1].data.v.objects.v) = 2
    /\ "game_mechanics" \in DOMAIN returned[1].data.v.objects.v[2].v
    /\ returned[1].data.v.objects.v[2].v.game_mechanics =
           JObject([damage_amount |-> JNum(5000), speed_multiplier |-> JNum(200),
                    glow |-> JStr("green"), jump_boost |-> JNum(300)])

\* The objects of a document, none when it has no objects key.
ObjectsIn(doc) == IF "objects" \in DOMAIN doc.v THEN doc.v.objects.v ELSE <<>>

\* C22 (as claimed): the authored fallback scene satisfies every invariant of
\* a scene (it is accepted by parseSceneV1) and has a platform at ground
\* level among its objects and at least one pickup.
C22_FallbackSceneIsPlayable ==
    (Called("parseSceneV1") /\ call.arg = FallbackToJson(FALLBACK_SCENE_LITERAL)) =>
        /\ returned[1].ok
        /\ Len(returned[1].data.v.spawns.v.pickups.v) > 0
        /\ \E i \in 1..Len(ObjectsIn(call.arg)) :
               /\ ObjectsIn(call.arg)[i].v.type = JStr("platform")
               /\ ObjectsIn(call.arg)[i].v.bounds_normalized.v.y.v >= 85
        /\ \E i \in 1..Len(returned[1].data.v.objects.v) :
               returned[1].data.v.objects.v[i].v.type = JStr("platform")

\* ------------------------------------------- the detection endpoint (Vercel)

\* The text of a completion, as a sequence of pieces: prose, an opening
\* json or plain fence line, a closing fence, or the text of a JSON value
\* (which stands for that value).
Prose == [t |-> "prose"]
FenceJson == [t |-> "fence_json"]
Fence == [t |-> "fence"]
IsMarkup(piece) == piece.t \in {"prose", "fence_json", "fence"}

\* cleaned: the opening fence is removed from a text that starts with one, and
\* then a closing fence that ends the text.
StripFences(raw) ==
    IF Len(raw) > 0 /\ raw[1].t \in {"fence_json", "fence"}
    THEN LET opened == Tail(raw)
         IN IF Len(opened) > 0 /\ opened[Len(opened)].t = "fence"
            THEN SubSeq(opened, 1, Len(opened) - 1)
            ELSE opened
    ELSE raw

\* JSON.parse of a text in pieces: only the text of one JSON value parses.
JSONparseText(cleaned) ==
    IF Len(cleaned) = 1 /\ ~IsMarkup(cleaned[1])
    THEN [threw |-> FALSE, value |-> cleaned[1]]
    ELSE [threw |-> TRUE]

\* Property access on a parsed value other than null.
Prop(j, key) == IF j.t = "object" THEN Get(j, key) ELSE None

\* The level the builder makes of the detections: a version 1 scene of the
\* detected image with one object for each detection.
buildLevel(detections) ==
    JObject([version |-> JNum(100),
             image |-> Get(detections, "image"),
             objects |-> Get(detections, "detections"),
             spawns |-> JObject([enemies |-> JArr(<<>>), pickups |-> JArr(<<>>)])])

Status(status, body) == [status |-> status, body |-> body]

\* What the handler answers once the completion has settled with a text.
AnswerFor(raw) ==
    IF raw.t = "undefined" \/ Len(raw.v) = 0
    THEN Status(502, ErrorBody("Empty response from AI"))
    ELSE LET parsed == JSONparseText(StripFences(raw.v))
         IN IF parsed.threw
            THEN Status(502, [error |-> "AI returned invalid JSON", raw |-> raw.v])
            ELSE IF parsed.value.t = "null"
            THEN Status(500, [error |-> "AI processing failed"])
            ELSE IF \/ ~Truthy(Prop(parsed.value, "image"))
                    \/ Prop(parsed.value, "detections").t # "array"
            THEN Status(502, ErrorBody("AI returned unexpected structure"))
            ELSE Status(200, buildLevel(parsed.value))

\* The handler, from the request to the response it sends.
handler(req) ==
    IF req.method # "POST"
    THEN Status(405, ErrorBody("Method not allowed"))
    ELSE IF ~req.hasKey
    THEN Status(500, ErrorBody("Server misconfiguration: missing OPENAI_API_KEY"))
    ELSE IF ~req.hasImage
    THEN Status(500, [error |-> "AI processing failed"])
    ELSE IF req.completion.kind = "error"
    THEN IF req.completion.status = 429
         THEN Status(429, ErrorBody("Rate limited by AI provider. Try again shortly."))
         ELSE Status(500, [error |-> "AI processing failed"])
    ELSE AnswerFor(req.completion.content)

\* Inputs of the handler.
Detection == JObject([label |-> JStr("table"), category |-> JStr("furniture")])
Detections == JObject([image |-> JObject([w |-> JNum(128000), h |-> JNum(72000)]),
                       detections |-> JArr(<<Detection>>)])
ReplyBodies ==
    {Detections,
     JObject([detections |-> JArr(<<Detection>>)]),
     JObject([image |-> JObject([w |-> JNum(128000), h |-> JNum(72000)]),
              detections |-> JNull]),
     JNull,
     JNum(100)}
Wrappings(body) ==
    {<<body>>,
     <<FenceJson, body, Fence>>,
     <<Fence, body, Fence>>,
     <<Prose, body>>,
     <<body, Prose>>,
     <<Prose, FenceJson, body, Fence>>,
     <<FenceJson, body, Fence, Prose>>}
RawTexts ==
    {<<>>, <<Prose>>, <<FenceJson, Fence>>}
        \cup UNION {Wrappings(body) : body \in ReplyBodies}
Completions ==
    {[kind |-> "error", status |-> 429], [kind |-> "error", status |-> 500],
     [kind |-> "ok", content |-> None]}
        \cup {[kind |-> "ok", content |-> JStr(raw)] : raw \in RawTexts}
VercelRequests ==
    [method : {"POST", "GET"}, hasKey : BOOLEAN, hasImage : BOOLEAN,
     completion : Completions]

VercelInit ==
    /\ ServerInit
    /\ ClientInit
    /\ returned = <<>>
    /\ \E req \in VercelRequests : call = [fn |-> "handler", arg |-> req]

CallHandler ==
    /\ call.fn = "handler"
    /\ Return(handler(call.arg))

VercelNext == CallHandler

VercelSpec == VercelInit /\ [][VercelNext]_vars

\* A request from which the endpoint gets an image: a POST with an image
\* part, to a server that has its API key.
CarriesImage(req) == req.method = "POST" /\ req.hasKey /\ req.hasImage

\* C23 (as claimed): every request that carries an image is answered with
\* status 200 and a scene, whatever the model call did (failed, answered
\* nothing, answered text that does not parse or has another structure); no
\* error status or error body is returned.
C23_ImageRequestsAnsweredWithScene ==
    (Called("handler") /\ CarriesImage(call.arg)) =>
        /\ returned[1].status = 200
        /\ "error" \notin DOMAIN returned[1].body
        /\ returned[1].body.t = "object"

\* The JSON values whose text the reply holds.
BodiesOf(raw) == {raw[i] : i \in {k \in 1..Len(raw) : ~IsMarkup(raw[k])}}

\* C24 (as claimed): a reply that holds one JSON object, in a code fence or
\* with prose before or after it, is answered as the reply that is the bare
\* object is answered.
C24_WrappedJsonParsesAsBare ==
    (/\ Called("handler") /\ CarriesImage(call.arg)
     /\ call.arg.completion.kind = "ok"
     /\ call.arg.completion.content.t = "string"
     /\ BodiesOf(call.arg.completion.content.v) = {Detections}) =>
        /\ JSONparseText(StripFences(call.arg.completion.content.v))
               = JSONparseText(<<Detections>>)
        /\ returned[1] = Status(200, buildLevel(Detections))

\* ---------------------------------------------------------------- GameScene

\* What the scene's callbacks leave alone.
notGame == <<serverVars, call, returned, npcVars, uiVars>>

MaxTime == 7000
TickSteps == {500, 1000}

Min(a, b) == IF a < b THEN a ELSE b
Max(a, b) == IF a > b THEN a ELSE b

\* An entry of spawns.pickups or spawns.enemies; its type is optional.
Spawn(x, y) == [x |-> x, y |-> y]
TypedSpawn(x, y, type) == [x |-> x, y |-> y, type |-> type]

\* The validated scenes a run is started with, as far as the run reads them.
PickupLists ==
    {<<>>,
     <<Spawn(30, 80)>>,
     <<TypedSpawn(30, 80, "coin")>>,
     <<TypedSpawn(60, 40, "health")>>,
     <<Spawn(30, 80), TypedSpawn(60, 40, "health")>>}
EnemyLists ==
    {<<>>,
     <<TypedSpawn(50, 80, "walker")>>,
     [i \in 1..MAX_OBJECTS + MaxExcess |-> Spawn(50, 80)]}
GameScenes ==
    {[spawns |-> [pickups |-> pickups, enemies |-> enemies]] :
        pickups \in PickupLists, enemies \in EnemyLists}

\* createPickups: a stack of two sprites for a coin entry, one sprite for a
\* health entry; each sprite has its pickupType and an enabled body.
PickupSprite(p) ==
    [pickupType |-> IF "type" \in DOMAIN p THEN p.type ELSE "coin",
     enabled |-> TRUE]
IconName(p) == IF "type" \in DOMAIN p /\ p.type = "health" THEN "health" ELSE "coin"
RECURSIVE createPickups(_)
createPickups(pickups) ==
    IF Len(pickups) = 0 THEN <<>>
    ELSE LET p == Head(pickups)
             count == IF IconName(p) = "coin" THEN 2 ELSE 1
         IN [i \in 1..count |-> PickupSprite(p)] \o createPickups(Tail(pickups))

\* createEnemies: a group with one sprite for each entry of the list.
EnemySprite(e) ==
    [enemyType |-> IF "type" \in DOMAIN e THEN e.type ELSE "walker",
     damageAmount |-> 20,
     patrolReady |-> FALSE]
createEnemies(enemies) ==
    [t |-> "group", children |-> [i \in 1..Len(enemies) |-> EnemySprite(enemies[i])]]

\* init(data): Phaser calls it when the scene is started or restarted.
init(data) ==
    /\ sceneData' = data
    /\ score' = 0
    /\ health' = 10
    /\ gameWon' = FALSE
    /\ gameLost' = FALSE
    /\ invulnerableUntil' = 0
    /\ phase' = "init"
    /\ pickupGroup' = <<>>
    /\ damagedAt' = <<>>
    /\ emitted' = [won |-> 0, lost |-> 0]
    /\ UNCHANGED <<now, enemyGroup>>
    /\ UNCHANGED notGame

Start == \E data \in GameScenes : init(data)

\* create(): builds the world and registers the overlap callbacks.
create ==
    /\ phase = "init"
    /\ phase' = "running"
    /\ pickupGroup' = IF Len(sceneData.spawns.pickups) > 0
                      THEN createPickups(sceneData.spawns.pickups)
                      ELSE <<>>
    /\ enemyGroup' = IF Len(sceneData.spawns.enemies) > 0
                     THEN createEnemies(sceneData.spawns.enemies)
                     ELSE enemyGroup
    /\ UNCHANGED <<sceneData, score, health, gameWon, gameLost,
                   invulnerableUntil, now, damagedAt, emitted>>
    /\ UNCHANGED notGame

\* Mutant of ExitOverlap: the callback does not look at gameWon.
ExitOverlapUnguarded ==
    /\ phase = "running"
    /\ emitted.won < 3
    /\ gameWon' = TRUE
    /\ emitted' = [emitted EXCEPT !.won = @ + 1]
    /\ UNCHANGED <<enemyGroup, phase, sceneData, score, health, gameLost,
                   invulnerableUntil, now, pickupGroup, damagedAt>>
    /\ UNCHANGED notGame

\* The overlap callback of the player and the exit sprite.
ExitOverlap ==
    /\ phase = "running"
    /\ ~gameWon
    /\ gameWon' = TRUE
    /\ emitted' = [emitted EXCEPT !.won = @ + 1]
    /\ UNCHANGED <<enemyGroup, phase, sceneData, score, health, gameLost, invulnerableUntil,
                   now, pickupGroup, damagedAt>>
    /\ UNCHANGED notGame

\* Mutant of PickupOverlap: a health pickup is taken at full health too.
PickupOverlapAlways(i) ==
    /\ phase = "running"
    /\ pickupGroup[i].enabled
    /\ pickupGroup' = [pickupGroup EXCEPT ![i].enabled = FALSE]
    /\ IF pickupGroup[i].pickupType = "health"
       THEN health' = Min(10, health + 5) /\ UNCHANGED score
       ELSE score' = score + 1 /\ UNCHANGED health
    /\ UNCHANGED <<enemyGroup, phase, sceneData, gameWon, gameLost, invulnerableUntil, now,
                   damagedAt, emitted>>
    /\ UNCHANGED notGame

\* The overlap callback of the player and pickup sprite i; the physics world
\* calls it only for a sprite whose body is enabled.
PickupOverlap(i) ==
    /\ phase = "running"
    /\ pickupGroup[i].enabled
    /\ IF pickupGroup[i].pickupType = "health"
       THEN IF health >= 10
            THEN UNCHANGED <<pickupGroup, health, score>>
            ELSE /\ pickupGroup' = [pickupGroup EXCEPT ![i].enabled = FALSE]
                 /\ health' = Min(10, health + 5)
                 /\ UNCHANGED score
       ELSE /\ pickupGroup' = [pickupGroup EXCEPT ![i].enabled = FALSE]
            /\ score' = score + 1
            /\ UNCHANGED health
    /\ UNCHANGED <<enemyGroup, phase, sceneData, gameWon, gameLost, invulnerableUntil, now,
                   damagedAt, emitted>>
    /\ UNCHANGED notGame

\* Mutant of EnemyOverlap: health is lowered without the clamp at 0.
EnemyOverlapNoClamp ==
    /\ phase = "running"
    /\ Len(sceneData.spawns.enemies) > 0
    /\ ~(gameWon \/ gameLost)
    /\ ~(now < invulnerableUntil)
    /\ health' = health - 2
    /\ invulnerableUntil' = now + 1000
    /\ damagedAt' = Append(damagedAt, now)
    /\ IF health' <= 0
       THEN gameLost' = TRUE /\ emitted' = [emitted EXCEPT !.lost = @ + 1]
       ELSE UNCHANGED <<gameLost, emitted>>
    /\ UNCHANGED <<enemyGroup, phase, sceneData, score, gameWon, now, pickupGroup>>
    /\ UNCHANGED notGame

\* Mutant of EnemyOverlap: the invulnerability window is not looked at.
EnemyOverlapNoWindow ==
    /\ phase = "running"
    /\ Len(sceneData.spawns.enemies) > 0
    /\ ~(gameWon \/ gameLost)
    /\ health' = Max(0, health - 2)
    /\ invulnerableUntil' = now + 1000
    /\ damagedAt' = Append(damagedAt, now)
    /\ IF health' <= 0
       THEN gameLost' = TRUE /\ emitted' = [emitted EXCEPT !.lost = @ + 1]
       ELSE UNCHANGED <<gameLost, emitted>>
    /\ UNCHANGED <<enemyGroup, phase, sceneData, score, gameWon, now, pickupGroup>>
    /\ UNCHANGED notGame

\* The overlap callback of the player and an enemy, registered when the scene
\* has enemies.
EnemyOverlap ==
    /\ phase = "running"
    /\ Len(sceneData.spawns.enemies) > 0
    /\ ~(gameWon \/ gameLost)
    /\ ~(now < invulnerableUntil)
    /\ health' = Max(0, health - 2)
    /\ invulnerableUntil' = now + 1000
    /\ damagedAt' = Append(damagedAt, now)
    /\ IF health' <= 0
       THEN gameLost' = TRUE /\ emitted' = [emitted EXCEPT !.lost = @ + 1]
       ELSE UNCHANGED <<gameLost, emitted>>
    /\ UNCHANGED <<enemyGroup, phase, sceneData, score, gameWon, now, pickupGroup>>
    /\ UNCHANGED notGame

\* The clock of the scene advances with the game loop.
Tick ==
    /\ phase = "running"
    /\ \E d \in TickSteps :
        /\ now + d <= MaxTime
        /\ now' = now + d
    /\ UNCHANGED <<enemyGroup, phase, sceneData, score, health, gameWon, gameLost,
                   invulnerableUntil, pickupGroup, damagedAt, emitted>>
    /\ UNCHANGED notGame

GameInit ==
    /\ ServerInit
    /\ ClientInit
    /\ call = None
    /\ returned = <<>>

GameNext ==
    \/ Start
    \/ create
    \/ ExitOverlap
    \/ \E i \in 1..Len(pickupGroup) : PickupOverlap(i)
    \/ EnemyOverlap
    \/ Tick

GameSpec == GameInit /\ [][GameNext]_vars

\* The score the table of pickup types gives for a collected pickup.
PickupScore(type) == IF type = "health" THEN 5 ELSE 1

RECURSIVE CollectedScore(_)
CollectedScore(sprites) ==
    IF Len(sprites) = 0 THEN 0
    ELSE (IF Head(sprites).enabled THEN 0 ELSE PickupScore(Head(sprites).pickupType))
         + CollectedScore(Tail(sprites))

\* C25 (as claimed): the score of a run is what its collected pickups add up
\* to, 1 for each coin and 5 for each health pickup.
C25_PickupsScoreByType ==
    phase = "running" => score = CollectedScore(pickupGroup)

\* C26 (as claimed): the errors of a failed validation name every violation
\* of the document: for a document with version 2 and 13 platforms they hold
\* both the message about the version and the message about the platform cap.
C26_ErrorsNameEveryViolation ==
    (Called("parseSceneV1") /\ call.arg = TwoDefectsScene) =>
        /\ ~returned[1].ok
        /\ "version: Invalid literal value, expected 1" \in Range(returned[1].errors)
        /\ "Too many platform objects: 13 (max 12)" \in Range(returned[1].errors)

\* C27: a run starts with 10 HP (after init, also on a restart); whenever
\* health goes down it goes down by 2, or to 0 from less than 2; health is
\* always an integer from 0 to 10; and the game becomes lost in exactly the
\* steps in which health reaches 0.
C27_HealthStartsAtTenDropsByTwoLosesAtZero ==
    /\ [](health \in 0..10 /\ (phase = "init" => health = 10))
    /\ [][/\ health' < health => health' = Max(0, health - 2)
          /\ (gameLost' /\ ~gameLost) <=> (health' = 0 /\ health # 0)]_vars

\* C27 witness: a run has been lost by its eighth hit, which found health at
\* 1 (one health pickup was consumed on the way).
C27_Witness ==
    /\ gameLost
    /\ health = 0
    /\ Len(damagedAt) = 8
    /\ Cardinality({i \in 1..Len(pickupGroup) :
                       pickupGroup[i].pickupType = "health"
                       /\ ~pickupGroup[i].enabled}) = 1

HealthPickups == {i \in 1..Len(pickupGroup) : pickupGroup[i].pickupType = "health"}

\* C29: within a run, a health pickup is consumed only below full health, and
\* the step that consumes it sets health to min(10, health + 5); health rises
\* only in a step that consumes exactly one health pickup; and a consumed
\* health pickup stays consumed (its callback does not fire again).
C29_HealthPickupHealsOnceBelowFull ==
    [][(phase = "running" /\ phase' = "running") =>
          LET consumed == {i \in HealthPickups :
                              pickupGroup[i].enabled /\ ~pickupGroup'[i].enabled}
          IN /\ consumed # {} => (health < 10 /\ health' = Min(10, health + 5))
             /\ health' > health => Cardinality(consumed) = 1
             /\ consumed = {} => health' <= health
             /\ \A i \in HealthPickups :
                    ~pickupGroup[i].enabled =>
                        (~pickupGroup'[i].enabled /\ ~ENABLED PickupOverlap(i))]_vars

\* C29 witness: after three hits the health pickup was consumed at health 4
\* and set it to 9.
C29_Witness ==
    /\ phase = "running"
    /\ \E i \in HealthPickups : ~pickupGroup[i].enabled
    /\ health = 9
    /\ Len(damagedAt) = 3

\* ------------------------------------------------------------------- askNPC

MaxAsks == 3

\* What askNPC leaves alone.
notNpc == <<serverVars, call, returned, gameVars, uiVars>>

\* The content of a user message: the text, with the screenshot if one is
\* given.
UserContent(userMessage, screenshotBase64) ==
    IF screenshotBase64 # ""
    THEN <<[type |-> "text", text |-> userMessage],
           [type |-> "image_url", url |-> screenshotBase64, detail |-> "low"]>>
    ELSE <<[type |-> "text", text |-> userMessage]>>

\* The history after k exchanges that succeeded one after the other.
RECURSIVE Exchanges(_)
Exchanges(k) ==
    IF k = 0 THEN <<NPC_SYSTEM_MESSAGE>>
    ELSE Exchanges(k - 1)
         \o <<ChatMessage("user", UserContent("help", ""), k - 100),
              ChatMessage("assistant", "reply", k - 100)>>

\* How the fetch of a call can end: a reply, a body without one, a status
\* that is not OK, or a rejection (no network, or a body that is no JSON).
FetchOutcomes ==
    {[kind |-> "ok", content |-> JStr("reply")],
     [kind |-> "ok", content |-> None],
     [kind |-> "status", status |-> 429],
     [kind |-> "throw"]}

\* askNPC up to its await: without a key it returns at once, otherwise it
\* pushes the user message and sends the history.
AskStart(c) ==
    /\ ask[c].pc = "idle"
    /\ asked < MaxAsks
    /\ asked' = asked + 1
    /\ \E screenshotBase64 \in {"", "data:image/png"} :
        IF OPENAI_API_KEY = "" \/ OPENAI_API_KEY = "your-api-key-here"
        THEN /\ ask' = [ask EXCEPT ![c] =
                          [pc |-> "idle", n |-> asked',
                           returned |-> JStr("(No API key set)")]]
             /\ UNCHANGED conversationHistory
        ELSE /\ conversationHistory' =
                    Append(conversationHistory,
                           ChatMessage("user", UserContent("help", screenshotBase64),
                                       asked'))
             /\ ask' = [ask EXCEPT ![c] =
                          [pc |-> "fetch", n |-> asked', returned |-> None]]
    /\ UNCHANGED OPENAI_API_KEY
    /\ UNCHANGED notNpc

\* conversationHistory.splice(1, 2)
Splice12(history) ==
    <<history[1]>> \o SubSeq(history, 4, Len(history))

\* Mutant of Trimmed: the history is never trimmed.
TrimmedNever(history) == history

\* The trimming after a reply was pushed.
Trimmed(history) ==
    IF Len(history) > 21 THEN Splice12(history) ELSE history

\* askNPC after its await: the fetch has settled.
AskSettle(c) ==
    /\ ask[c].pc = "fetch"
    /\ \E outcome \in FetchOutcomes :
        CASE outcome.kind = "ok" ->
               LET reply == IF outcome.content.t = "string"
                            THEN outcome.content.v ELSE "(No response)"
               IN /\ conversationHistory' =
                        Trimmed(Append(conversationHistory,
                                       ChatMessage("assistant", reply, ask[c].n)))
                  /\ ask' = [ask EXCEPT ![c].pc = "idle",
                                        ![c].returned = JStr(reply)]
          [] outcome.kind = "status" ->
               /\ ask' = [ask EXCEPT ![c].pc = "idle",
                                     ![c].returned = JStr("(API error: "
                                         \o ToString(outcome.status) \o ")")]
               /\ UNCHANGED conversationHistory
          [] outcome.kind = "throw" ->
               /\ ask' = [ask EXCEPT ![c].pc = "idle",
                                     ![c].returned = JStr("(Failed to reach AI)")]
               /\ UNCHANGED conversationHistory
    /\ UNCHANGED <<OPENAI_API_KEY, asked>>
    /\ UNCHANGED notNpc

\* The client with a conversation of a few exchanges behind it.
NpcInit ==
    /\ ServerInit
    /\ GameConstructed
    /\ OverlaysIdle
    /\ canShare = TRUE
    /\ call = None
    /\ returned = <<>>
    /\ OPENAI_API_KEY \in {"", "your-api-key-here", "sk-key"}
    /\ \E k \in {0, 9, 10} : conversationHistory = Exchanges(k)
    /\ ask = [c \in Callers |-> [pc |-> "idle", n |-> 0, returned |-> None]]
    /\ asked = 0

NpcNext ==
    \/ \E c \in Callers : AskStart(c)
    \/ \E c \in Callers : AskSettle(c)

NpcSpec == NpcInit /\ [][NpcNext]_vars

\* C30 (as claimed): whenever no askNPC call is in flight, the history holds
\* at most 21 messages, whatever the calls before did (replied, failed with
\* a status, failed on the network).
C30_HistoryAtMostTwentyOne ==
    (\A c \in Callers : ask[c].pc = "idle") => Len(conversationHistory) <= 21

\* C31 (as claimed): the enemy sprites created for a scene are never more
\* than a fixed limit, however many entries spawns.enemies has; the limit
\* taken here is the largest the schema knows, MAX_OBJECTS.
C31_EnemySpritesCapped ==
    (phase = "running" /\ Len(sceneData.spawns.enemies) > 0) =>
        Len(enemyGroup.children) <= MAX_OBJECTS

\* C32 (as claimed): gameWon and gameLost are never both true, and a run
\* emits game-won or game-lost but not both.
C32_WonAndLostExclusive ==
    /\ ~(gameWon /\ gameLost)
    /\ ~(emitted.won > 0 /\ emitted.lost > 0)

\* C33 (as claimed): once a run has ended (gameWon or gameLost), score and
\* health stay as they are until the scene is restarted.
C33_ScoreAndHealthFrozenAfterEnd ==
    [][((gameWon \/ gameLost) /\ phase' = "running") =>
          (score' = score /\ health' = health)]_vars

\* C34: within a run game-won is emitted at most once and game-lost is
\* emitted at most once.
C34_EndEventsAtMostOncePerRun ==
    emitted.won <= 1 /\ emitted.lost <= 1

\* C34 witness: a run has emitted game-lost and then game-won, once each,
\* and the scene is still running, so both callbacks can fire again.
C34_Witness ==
    /\ phase = "running"
    /\ emitted = [won |-> 1, lost |-> 1]
    /\ Len(sceneData.spawns.enemies) > 0

\* The strings askNPC returns for a call that failed.
FailureStrings == {"(API error: 429)", "(Failed to reach AI)"}

\* C35 (as claimed): a call that failed (a status that is not OK, or a fetch
\* that threw) returned an error string and left nothing in the history: no
\* message of that call is in it; and without a key the history is not
\* touched at all.
C35_FailedCallLeavesHistoryUnchanged ==
    /\ \A c \in Callers :
           (ask[c].pc = "idle" /\ ask[c].returned.t = "string"
            /\ ask[c].returned.v \in FailureStrings) =>
               \A i \in 1..Len(conversationHistory) :
                   conversationHistory[i].n # ask[c].n
    /\ OPENAI_API_KEY \in {"", "your-api-key-here"} =>
           \E k \in {0, 9, 10} : conversationHistory = Exchanges(k)

\* C36 (as claimed): whenever no call is in flight, the history is the system
\* message followed by user and assistant messages in strict alternation,
\* each assistant reply directly after the user message of the same call.
C36_HistoryAlternates ==
    (\A c \in Callers : ask[c].pc = "idle") =>
        /\ conversationHistory[1] = NPC_SYSTEM_MESSAGE
        /\ \A i \in 2..Len(conversationHistory) :
               IF i % 2 = 0
               THEN /\ conversationHistory[i].role = "user"
                    /\ i < Len(conversationHistory)
               ELSE /\ conversationHistory[i].role = "assistant"
                    /\ conversationHistory[i - 1].role = "user"
                    /\ conversationHistory[i - 1].n = conversationHistory[i].n

\* ----------------------------------------------------------- share overlays

MaxClicks == 3

\* What the overlays leave alone.
notUi == <<serverVars, call, returned, gameVars, npcVars>>

\* The share state of an overlay: WinOverlay keeps its own, the lose overlay
\* uses PlayScreen's.
StateOf(o) == IF o = "win" THEN shareState ELSE loseShareState

SetState(o, state) ==
    IF o = "win"
    THEN shareState' = state /\ UNCHANGED loseShareState
    ELSE loseShareState' = state /\ UNCHANGED shareState

\* Whether the overlay renders a Share Level button that can be clicked.
ShareOffered(o) ==
    /\ canShare
    /\ IF o = "win"
       THEN shareState \in {"idle", "error"}
       ELSE loseShareState # "shared" /\ loseShareState # "sharing"

\* handleShareSubmit / handleLoseShare up to the await: a click on Share Level.
ShareClick(o) ==
    /\ ShareOffered(o)
    /\ clicks < MaxClicks
    /\ clicks' = clicks + 1
    /\ SetState(o, "sharing")
    /\ sharing' = [sharing EXCEPT ![o] = @ + 1]
    /\ UNCHANGED <<canShare, resetTimers>>
    /\ UNCHANGED notUi

\* The handlers after the await: the share has succeeded, or has failed and
\* the handler arms the timer that resets the state after 2 seconds.
ShareSettles(o) ==
    /\ sharing[o] > 0
    /\ sharing' = [sharing EXCEPT ![o] = @ - 1]
    /\ \E ok \in BOOLEAN :
        IF ok
        THEN SetState(o, "shared") /\ UNCHANGED resetTimers
        ELSE /\ SetState(o, "error")
             /\ resetTimers' = [resetTimers EXCEPT ![o] = @ + 1]
    /\ UNCHANGED <<canShare, clicks>>
    /\ UNCHANGED notUi

\* A reset timer fires: setShareState('idle').
TimerFires(o) ==
    /\ resetTimers[o] > 0
    /\ resetTimers' = [resetTimers EXCEPT ![o] = @ - 1]
    /\ SetState(o, "idle")
    /\ UNCHANGED <<canShare, clicks, sharing>>
    /\ UNCHANGED notUi

\* handlePlayAgain: PlayScreen resets loseShareState; the win overlay is
\* unmounted and comes back as a new one, which the requests and timers of
\* the old one no longer reach.
PlayAgain(o) ==
    /\ StateOf(o) # "sharing" \/ o = "lose"
    /\ SetState(o, "idle")
    /\ IF o = "win"
       THEN /\ sharing' = [sharing EXCEPT ![o] = 0]
            /\ resetTimers' = [resetTimers EXCEPT ![o] = 0]
       ELSE UNCHANGED <<sharing, resetTimers>>
    /\ UNCHANGED <<canShare, clicks>>
    /\ UNCHANGED notUi

UiInit ==
    /\ ServerInit
    /\ GameConstructed
    /\ NpcLoaded
    /\ OPENAI_API_KEY = "sk-key"
    /\ call = None
    /\ returned = <<>>
    /\ OverlaysIdle
    /\ canShare \in BOOLEAN

UiNext ==
    \/ \E o \in Overlays : ShareClick(o)
    \/ \E o \in Overlays : ShareSettles(o)
    \/ \E o \in Overlays : TimerFires(o)
    \/ \E o \in Overlays : PlayAgain(o)

UiSpec == UiInit /\ [][UiNext]_vars

\* C37 (as claimed): in each overlay at most one share request is in flight,
\* and while one is in flight the share state is "sharing" and the share
\* action is not offered.
C37_OneShareInFlight ==
    \A o \in Overlays :
        /\ sharing[o] <= 1
        /\ sharing[o] > 0 => (StateOf(o) = "sharing" /\ ~ShareOffered(o))

\* C38 (as claimed): a share state that is "shared" stays "shared" in every
\* step but Play Again.
C38_SharedStaysShared ==
    [][\A o \in Overlays :
          (StateOf(o) = "shared" /\ ~PlayAgain(o)) =>
              (IF o = "win" THEN shareState' ELSE loseShareState') = "shared"]_vars

============================================================================
